---------------------------- MODULE Spec2Model ----------------------------
(***************************************************************************)
(* A model of the "deduct" puzzle engine: four PuzzleGenerator variants    *)
(* (src/js/puzzle-generator.js and src/unnamed/part_001..003), their       *)
(* solvers and uniqueness search, and the GameState that consumes a        *)
(* puzzle (src/unnamed/part_000).                                          *)
(*                                                                         *)
(* Matrices are functions over 0-based indices, as in the source.  A       *)
(* generator is constructed with `size`; the program always passes 7       *)
(* (src/js/main.js:416).  The model constructs generators with Size, and   *)
(* the static fallback puzzles keep their literal 7 x 7 data.              *)
(***************************************************************************)
EXTENDS Integers, Sequences, FiniteSets, TLC

\* ------------------------------------------------------------------ bounds
\* size passed to the PuzzleGenerator constructor in the model
Size == 3
\* random cell values are drawn from minValue .. minValue + ValueSpan - 1
ValueSpan == 2
\* generate() is run with maxAttempts in {0, MaxAttempts}
MaxAttempts == 2
\* at most MaxAbove of the random cell draws of one grid are above the minimum
MaxAbove == 2
\* at most MaxToggles toggleCell calls are made on one loaded puzzle
MaxToggles == 2

\* the size the program constructs its generator with
ProgramSize == 7
\* GameState.size
GameSize == 7

Idx(n) == 0 .. (n - 1)
Cells(n) == Idx(n) \X Idx(n)
AllTrue(n) == [i \in Idx(n) |-> [j \in Idx(n) |-> TRUE]]
AllFalse(n) == [i \in Idx(n) |-> [j \in Idx(n) |-> FALSE]]
Set2(m, i, j, v) == [m EXCEPT ![i][j] = v]

\* for (k = 0; k < n; k++) acc += f[k]
RECURSIVE Accumulate(_, _)
Accumulate(f, n) == IF n = 0 THEN 0 ELSE Accumulate(f, n - 1) + f[n - 1]

\* array.filter(x => x).length
CountTrue(f, n) == Cardinality({k \in Idx(n) : f[k]})

\* statement order: `first` is computed before `second`, which is the result
InOrder(first, second) == IF first = first THEN second ELSE second

\* ------------------------------------------------------ Target Calculator
calculateTargets_KeepAll(n, grid, solutionMask) ==
    [row |-> [i \in Idx(n) |-> Accumulate([j \in Idx(n) |-> grid[i][j]], n)],
     col |-> [j \in Idx(n) |-> Accumulate([i \in Idx(n) |-> grid[i][j]], n)]]

calculateTargets(n, grid, solutionMask) ==
    [row |-> [i \in Idx(n) |->
                Accumulate([j \in Idx(n) |-> IF solutionMask[i][j] THEN grid[i][j] ELSE 0], n)],
     col |-> [j \in Idx(n) |->
                Accumulate([i \in Idx(n) |-> IF solutionMask[i][j] THEN grid[i][j] ELSE 0], n)]]

\* ----------------------------------------------------- Uniqueness Checker
isValidSolution(n, grid, mask, targets) ==
    /\ \A i \in Idx(n) :
          Accumulate([j \in Idx(n) |-> IF mask[i][j] THEN grid[i][j] ELSE 0], n) = targets.row[i]
    /\ \A j \in Idx(n) :
          Accumulate([i \in Idx(n) |-> IF mask[i][j] THEN grid[i][j] ELSE 0], n) = targets.col[j]

canDeleteCell_NoFloor(n, mask, row, col) == TRUE

\* deletes the cell, counts the kept cells of its row and column, restores it
canDeleteCell(n, mask, row, col) ==
    LET m == Set2(mask, row, col, FALSE)
        rowCount == CountTrue(m[row], n)
        colCount == CountTrue([r \in Idx(n) |-> m[r][col]], n)
    IN  rowCount >= 2 /\ colCount >= 2

canReachTargets_DecidedBefore(i, j, currentRow, currentCol) ==
    i < currentRow \/ (i = currentRow /\ j < currentCol)

\* a cell (i, j) is "already decided" when it is at or before (currentRow, currentCol)
canReachTargets_Decided(i, j, currentRow, currentCol) ==
    i < currentRow \/ (i = currentRow /\ j <= currentCol)

canReachTargets(n, grid, mask, targets, currentRow, currentCol) ==
    LET decided(i, j) == canReachTargets_Decided(i, j, currentRow, currentCol)
        rowSum(i) == Accumulate([j \in Idx(n) |->
                        IF decided(i, j) /\ mask[i][j] THEN grid[i][j] ELSE 0], n)
        rowPotential(i) == Accumulate([j \in Idx(n) |->
                        IF decided(i, j) THEN (IF mask[i][j] THEN grid[i][j] ELSE 0)
                        ELSE grid[i][j]], n)
        colPotential(j) == Accumulate([i \in Idx(n) |->
                        IF decided(i, j) THEN (IF mask[i][j] THEN grid[i][j] ELSE 0)
                        ELSE grid[i][j]], n)
        rowOk(i) == IF i < currentRow \/ (i = currentRow /\ currentCol = n - 1)
                    THEN rowSum(i) = targets.row[i]
                    ELSE ~(rowPotential(i) < targets.row[i])
    IN  /\ \A i \in 0 .. currentRow : rowOk(i)
        /\ \A j \in Idx(n) : ~(colPotential(j) < targets.col[j])

\* the cells at or after (row, col), and those after it, in row-major order
cellsFrom(n, row, col) == {c \in Cells(n) : c[1] > row \/ (c[1] = row /\ c[2] >= col)}
cellsAfter(n, row, col) == {c \in Cells(n) : c[1] > row \/ (c[1] = row /\ c[2] > col)}
allKept(mask, C) == \A c \in C : mask[c[1]][c[2]]

\* the start of a search: hasUniqueSolution's fresh all-true mask and empty list
NewSearch(n) ==
    [mask |-> AllTrue(n), solutions |-> <<>>, restored |-> TRUE, keptAhead |-> TRUE]

restoreCell_Skip(mask, row, col) == mask

\* mask[row][col] = true after the deleting branch
restoreCell(mask, row, col) == Set2(mask, row, col, TRUE)

\* The search works in place on `mask` and appends to `solutions`; st carries
\* both, and two observations of the run: restored, whether every call so far
\* returned with the cells from its own cell on true again, and keptAhead,
\* whether every canDeleteCell call so far saw the cells after its cell true.
RECURSIVE findAllSolutions(_, _, _, _, _, _, _)
findAllSolutions(n, grid, targets, st, row0, col0, maxSolutions) ==
    LET row == IF col0 >= n THEN row0 + 1 ELSE row0
        col == IF col0 >= n THEN 0 ELSE col0
    IN
    IF Len(st.solutions) >= maxSolutions
    THEN [st EXCEPT !.restored = @ /\ allKept(st.mask, cellsFrom(n, row, col))]
    ELSE IF row >= n
    THEN IF isValidSolution(n, grid, st.mask, targets)
         THEN [st EXCEPT !.solutions = Append(@, st.mask)]
         ELSE st
    ELSE
      LET keepMask == Set2(st.mask, row, col, TRUE)
          st1 == [st EXCEPT !.mask = keepMask]
          st2 == IF canReachTargets(n, grid, keepMask, targets, row, col)
                 THEN findAllSolutions(n, grid, targets, st1, row, col + 1, maxSolutions)
                 ELSE st1
      IN
      IF st2 = st2 /\ canDeleteCell(n, st2.mask, row, col)
      THEN LET delMask == Set2(st2.mask, row, col, FALSE)
               st3 == [st2 EXCEPT !.mask = delMask,
                                  !.keptAhead = @ /\ allKept(st2.mask, cellsAfter(n, row, col))]
               st4 == IF canReachTargets(n, grid, delMask, targets, row, col)
                      THEN findAllSolutions(n, grid, targets, st3, row, col + 1, maxSolutions)
                      ELSE st3
           IN  [st4 EXCEPT !.mask = restoreCell(st4.mask, row, col),
                           !.restored = @ /\ allKept(restoreCell(st4.mask, row, col),
                                                     cellsFrom(n, row, col))]
      ELSE [st2 EXCEPT !.keptAhead = @ /\ allKept(st2.mask, cellsAfter(n, row, col)),
                       !.restored = @ /\ allKept(st2.mask, cellsFrom(n, row, col))]

uniquenessSearch_StopAtOne(n, grid, targets) ==
    findAllSolutions(n, grid, targets, NewSearch(n), 0, 0, 1)

\* the search hasUniqueSolution starts: all-true mask, no solutions, at most 2
uniquenessSearch(n, grid, targets) ==
    findAllSolutions(n, grid, targets, NewSearch(n), 0, 0, 2)

hasUniqueSolution(n, grid, targets) ==
    Len(uniquenessSearch(n, grid, targets).solutions) = 1

\* ------------------------------------------------------------ solvers
\* A solver state is [deleted, confirmed]: the two boolean matrices, each held
\* as the set of the cells whose flag is true; both are empty at construction.
\* Every rule only sets a flag of a cell whose two flags are false, so a
\* rule's `changed` result is true exactly when the state differs.
NewSolverState(n) == [deleted |-> {}, confirmed |-> {}]
undecided(s, row, col) == <<row, col>> \notin s.deleted /\ <<row, col>> \notin s.confirmed

\* sum of the non-deleted cells of a row / column
getRowSum(n, grid, s, row) ==
    Accumulate([col \in Idx(n) |-> IF <<row, col>> \notin s.deleted THEN grid[row][col] ELSE 0], n)
getColSum(n, grid, s, col) ==
    Accumulate([row \in Idx(n) |-> IF <<row, col>> \notin s.deleted THEN grid[row][col] ELSE 0], n)

isSolved(n, grid, T, s) ==
    \A i \in Idx(n) : getRowSum(n, grid, s, i) = T.row[i] /\ getColSum(n, grid, s, i) = T.col[i]

\* the flags m with the flags of the cells of C set
withCells(m, C) == m \cup C
rowCells(n, row) == {<<row, col>> : col \in Idx(n)}
colCells(n, col) == {<<row, col>> : row \in Idx(n)}
undecidedIn(s, C) == {c \in C : undecided(s, c[1], c[2])}

SS_forcedDeletionsRow_FirstOnly(n, grid, T, s, row) ==
    LET excess == getRowSum(n, grid, s, row) - T.row[row]
        open == undecidedIn(s, rowCells(n, row))
        equal == {c \in open : grid[c[1]][c[2]] = excess}
    IN  IF excess > 0
        THEN [deleted |-> withCells(s.deleted, {c \in equal : \A d \in equal : c[2] <= d[2]}),
              confirmed |-> withCells(s.confirmed, {c \in open : grid[c[1]][c[2]] > excess})]
        ELSE s

\* --- SimpleSolver.applyForcedDeletions
SS_forcedDeletionsRow(n, grid, T, s, row) ==
    LET excess == getRowSum(n, grid, s, row) - T.row[row]
        open == undecidedIn(s, rowCells(n, row))
    IN  IF excess > 0
        THEN [deleted |-> withCells(s.deleted, {c \in open : grid[c[1]][c[2]] = excess}),
              confirmed |-> withCells(s.confirmed, {c \in open : grid[c[1]][c[2]] > excess})]
        ELSE s

RECURSIVE SS_forcedDeletionsRows(_, _, _, _, _)
SS_forcedDeletionsRows(n, grid, T, s, k) ==
    IF k = 0 THEN s
    ELSE LET before == SS_forcedDeletionsRows(n, grid, T, s, k - 1)
         IN  InOrder(before, SS_forcedDeletionsRow(n, grid, T, before, k - 1))

SS_forcedDeletionsCol(n, grid, T, s, col) ==
    LET excess == getColSum(n, grid, s, col) - T.col[col]
        open == undecidedIn(s, colCells(n, col))
    IN  IF excess > 0
        THEN [deleted |-> withCells(s.deleted, {c \in open : grid[c[1]][c[2]] = excess}),
              confirmed |-> withCells(s.confirmed, {c \in open : grid[c[1]][c[2]] > excess})]
        ELSE s

RECURSIVE SS_forcedDeletionsCols(_, _, _, _, _)
SS_forcedDeletionsCols(n, grid, T, s, k) ==
    IF k = 0 THEN s
    ELSE LET before == SS_forcedDeletionsCols(n, grid, T, s, k - 1)
         IN  InOrder(before, SS_forcedDeletionsCol(n, grid, T, before, k - 1))

applyForcedDeletions(n, grid, T, s) ==
    LET afterRows == SS_forcedDeletionsRows(n, grid, T, s, n)
    IN  InOrder(afterRows, SS_forcedDeletionsCols(n, grid, T, afterRows, n))

SS_forcedKeepsRow_AllCells(n, grid, T, s, row) ==
    IF getRowSum(n, grid, s, row) = T.row[row]
    THEN [s EXCEPT !.confirmed = withCells(s.confirmed, rowCells(n, row))]
    ELSE s

\* --- SimpleSolver.applyForcedKeeps
SS_forcedKeepsRow(n, grid, T, s, row) ==
    IF getRowSum(n, grid, s, row) = T.row[row]
    THEN [s EXCEPT !.confirmed = withCells(s.confirmed, undecidedIn(s, rowCells(n, row)))]
    ELSE s

RECURSIVE SS_forcedKeepsRows(_, _, _, _, _)
SS_forcedKeepsRows(n, grid, T, s, k) ==
    IF k = 0 THEN s
    ELSE LET before == SS_forcedKeepsRows(n, grid, T, s, k - 1)
         IN  InOrder(before, SS_forcedKeepsRow(n, grid, T, before, k - 1))

SS_forcedKeepsCol(n, grid, T, s, col) ==
    IF getColSum(n, grid, s, col) = T.col[col]
    THEN [s EXCEPT !.confirmed = withCells(s.confirmed, undecidedIn(s, colCells(n, col)))]
    ELSE s

RECURSIVE SS_forcedKeepsCols(_, _, _, _, _)
SS_forcedKeepsCols(n, grid, T, s, k) ==
    IF k = 0 THEN s
    ELSE LET before == SS_forcedKeepsCols(n, grid, T, s, k - 1)
         IN  InOrder(before, SS_forcedKeepsCol(n, grid, T, before, k - 1))

applyForcedKeeps(n, grid, T, s) ==
    LET afterRows == SS_forcedKeepsRows(n, grid, T, s, n)
    IN  InOrder(afterRows, SS_forcedKeepsCols(n, grid, T, afterRows, n))

\* --- SimpleSolver.applyCompletions
\* sum of the grid values over the cells of C
cellSum(n, grid, C) ==
    Accumulate([k \in Idx(n * n) |->
                    IF <<k \div n, k % n>> \in C THEN grid[k \div n][k % n] ELSE 0], n * n)

\* line is the set of cells of one row or one column
SS_completionsLine(n, grid, target, s, line) ==
    LET open == undecidedIn(s, line)
        undecidedSum == cellSum(n, grid, open)
        decidedSum == cellSum(n, grid,
                         {c \in line : c \notin s.deleted /\ c \in s.confirmed})
        needed == target - decidedSum
    IN  IF needed = undecidedSum /\ open # {}
        THEN [s EXCEPT !.confirmed = withCells(s.confirmed, open)]
        ELSE IF needed = 0 /\ open # {}
        THEN [s EXCEPT !.deleted = withCells(s.deleted, open)]
        ELSE s

SS_completionsRow(n, grid, T, s, row) ==
    SS_completionsLine(n, grid, T.row[row], s, rowCells(n, row))

RECURSIVE SS_completionsRows(_, _, _, _, _)
SS_completionsRows(n, grid, T, s, k) ==
    IF k = 0 THEN s
    ELSE LET before == SS_completionsRows(n, grid, T, s, k - 1)
         IN  InOrder(before, SS_completionsRow(n, grid, T, before, k - 1))

SS_completionsCol(n, grid, T, s, col) ==
    SS_completionsLine(n, grid, T.col[col], s, colCells(n, col))

RECURSIVE SS_completionsCols(_, _, _, _, _)
SS_completionsCols(n, grid, T, s, k) ==
    IF k = 0 THEN s
    ELSE LET before == SS_completionsCols(n, grid, T, s, k - 1)
         IN  InOrder(before, SS_completionsCol(n, grid, T, before, k - 1))

applyCompletions(n, grid, T, s) ==
    LET afterRows == SS_completionsRows(n, grid, T, s, n)
    IN  InOrder(afterRows, SS_completionsCols(n, grid, T, afterRows, n))

\* --- SimpleSolver.applyIntersectionLogic: one cell; the two ifs run in turn
SS_intersectionCell(n, grid, T, s, row, col) ==
    IF ~undecided(s, row, col) THEN s
    ELSE
      LET value == grid[row][col]
          rowSum == getRowSum(n, grid, s, row)
          colSum == getColSum(n, grid, s, col)
          s1 == IF rowSum - value < T.row[row] /\ colSum - value < T.col[col]
                THEN [s EXCEPT !.confirmed = withCells(s.confirmed, {<<row, col>>})] ELSE s
      IN  IF rowSum - T.row[row] = value /\ colSum - T.col[col] = value
          THEN [s1 EXCEPT !.deleted = withCells(s1.deleted, {<<row, col>>})] ELSE s1

\* row-major loop over the first k cells
RECURSIVE SS_intersectionCells(_, _, _, _, _)
SS_intersectionCells(n, grid, T, s, k) ==
    IF k = 0 THEN s
    ELSE LET before == SS_intersectionCells(n, grid, T, s, k - 1)
         IN  InOrder(before, SS_intersectionCell(n, grid, T, before,
                                                 (k - 1) \div n, (k - 1) % n))

applyIntersectionLogic(n, grid, T, s) ==
    SS_intersectionCells(n, grid, T, s, n * n)

\* --- SimpleSolver.applySubsetSum: rows only
SS_subsetSumRow(n, grid, T, s, row) ==
    LET currentSum == getRowSum(n, grid, s, row)
        excess == currentSum - T.row[row]
        und == {col \in Idx(n) : undecided(s, row, col)}
    IN  IF currentSum > T.row[row] /\ Cardinality(und) = 2
        THEN LET a == CHOOSE c \in und : \A d \in und : c <= d
                 b == CHOOSE c \in und : \A d \in und : c >= d
             IN  IF grid[row][a] = excess
                 THEN [deleted |-> withCells(s.deleted, {<<row, a>>}),
                       confirmed |-> withCells(s.confirmed, {<<row, b>>})]
                 ELSE IF grid[row][b] = excess
                 THEN [deleted |-> withCells(s.deleted, {<<row, b>>}),
                       confirmed |-> withCells(s.confirmed, {<<row, a>>})]
                 ELSE IF grid[row][a] + grid[row][b] = excess
                 THEN [s EXCEPT !.deleted = withCells(s.deleted, {<<row, a>>, <<row, b>>})]
                 ELSE s
        ELSE s

RECURSIVE SS_subsetSumRows(_, _, _, _, _)
SS_subsetSumRows(n, grid, T, s, k) ==
    IF k = 0 THEN s
    ELSE LET before == SS_subsetSumRows(n, grid, T, s, k - 1)
         IN  InOrder(before, SS_subsetSumRow(n, grid, T, before, k - 1))

applySubsetSum(n, grid, T, s) == SS_subsetSumRows(n, grid, T, s, n)

\* countDecided
countDecided(n, s) == Cardinality({c \in Cells(n) : ~undecided(s, c[1], c[2])})

\* --- SimpleSolver.solve
\* One iteration of the while loop, entered with the loop condition true.
\* r = [s, steps, changed, lastProgress, stuckCounter, broke]
SS_maxSteps == 200
SS_stuckLimit == 10

SimpleSolverStart(n) ==
    [s |-> NewSolverState(n), steps |-> 0, changed |-> TRUE,
     lastProgress |-> -1, stuckCounter |-> 0, broke |-> FALSE]

SimpleSolverLoopCond(n, grid, T, r) ==
    r.changed /\ r.steps < SS_maxSteps /\ ~isSolved(n, grid, T, r.s) /\ ~r.broke

\* the five rules of one pass, each on what the one before left
SimpleSolverRules(n, grid, T, s) ==
    applySubsetSum(n, grid, T,
        applyIntersectionLogic(n, grid, T,
            applyCompletions(n, grid, T,
                applyForcedKeeps(n, grid, T,
                    applyForcedDeletions(n, grid, T, s)))))

\* a pass that reports a change whether or not a rule set a flag
SimpleSolverPassed_AlwaysChanged(r, last, stuck, after) ==
    [s |-> after, steps |-> r.steps + 1, changed |-> TRUE,
     lastProgress |-> last, stuckCounter |-> stuck, broke |-> FALSE]

\* the loop variables after a pass that left the cells as `after`
SimpleSolverPassed(r, last, stuck, after) ==
    [s |-> after, steps |-> r.steps + 1, changed |-> after # r.s,
     lastProgress |-> last, stuckCounter |-> stuck, broke |-> FALSE]

SimpleSolverPass(n, grid, T, r) ==
    LET currentProgress == countDecided(n, r.s)
        same == currentProgress = r.lastProgress
        stuck == IF same THEN r.stuckCounter + 1 ELSE 0
        last == IF same THEN r.lastProgress ELSE currentProgress
    IN  IF same /\ stuck > SS_stuckLimit
        THEN [r EXCEPT !.changed = FALSE, !.stuckCounter = stuck, !.broke = TRUE]
        ELSE SimpleSolverPassed(r, last, stuck, SimpleSolverRules(n, grid, T, r.s))

RECURSIVE SimpleSolverRun(_, _, _, _)
SimpleSolverRun(n, grid, T, r) ==
    IF SimpleSolverLoopCond(n, grid, T, r)
    THEN SimpleSolverRun(n, grid, T, SimpleSolverPass(n, grid, T, r))
    ELSE r

\* what solve() returns when its loop ends with the loop variables r
SimpleSolverResult(n, grid, T, r) ==
    [solved |-> isSolved(n, grid, T, r.s), steps |-> r.steps]

\* SimpleSolver.solve(): { solved, steps }
SimpleSolverSolve(n, grid, T) ==
    SimpleSolverResult(n, grid, T, SimpleSolverRun(n, grid, T, SimpleSolverStart(n)))

\* --- LogicalSolver (src/js/puzzle-generator.js).  The file ends inside
\* applyForcedMoves: applyIntersectionLogic, applyAdvancedDeduction, isSolved,
\* getRowSum and getColSum of this class are not in the source and are taken
\* from the specification's section 4.5.
\* the body of either loop of applyForcedMoves for one row or one column
LS_forcedMovesLine(n, grid, currentSum, target, s, line) ==
    LET excess == currentSum - target
        open == undecidedIn(s, line)
    IN  IF excess > 0
        THEN [deleted |-> withCells(s.deleted, {c \in open : grid[c[1]][c[2]] = excess}),
              confirmed |-> withCells(s.confirmed,
                               {c \in open : /\ grid[c[1]][c[2]] > excess
                                             /\ currentSum - grid[c[1]][c[2]] < target})]
        ELSE IF excess = 0
        THEN [s EXCEPT !.confirmed = withCells(s.confirmed, open)]
        ELSE s

LS_forcedMovesRow(n, grid, T, s, row) ==
    LS_forcedMovesLine(n, grid, getRowSum(n, grid, s, row), T.row[row], s, rowCells(n, row))

RECURSIVE LS_forcedMovesRows(_, _, _, _, _)
LS_forcedMovesRows(n, grid, T, s, k) ==
    IF k = 0 THEN s
    ELSE LET before == LS_forcedMovesRows(n, grid, T, s, k - 1)
         IN  InOrder(before, LS_forcedMovesRow(n, grid, T, before, k - 1))

LS_forcedMovesCol(n, grid, T, s, col) ==
    LS_forcedMovesLine(n, grid, getColSum(n, grid, s, col), T.col[col], s, colCells(n, col))

RECURSIVE LS_forcedMovesCols(_, _, _, _, _)
LS_forcedMovesCols(n, grid, T, s, k) ==
    IF k = 0 THEN s
    ELSE LET before == LS_forcedMovesCols(n, grid, T, s, k - 1)
         IN  InOrder(before, LS_forcedMovesCol(n, grid, T, before, k - 1))

LS_applyForcedMoves(n, grid, T, s) ==
    LET afterRows == LS_forcedMovesRows(n, grid, T, s, n)
    IN  InOrder(afterRows, LS_forcedMovesCols(n, grid, T, afterRows, n))

\* specification 4.5, "Intersection logic"
LS_applyIntersectionLogic(n, grid, T, s) ==
    SS_intersectionCells(n, grid, T, s, n * n)

\* specification 4.5, "Bounded subset-sum": a row/column with exactly two
\* undecided cells and a known excess
LS_subsetSumCol(n, grid, T, s, col) ==
    LET currentSum == getColSum(n, grid, s, col)
        excess == currentSum - T.col[col]
        und == {row \in Idx(n) : undecided(s, row, col)}
    IN  IF excess > 0 /\ Cardinality(und) = 2
        THEN LET a == CHOOSE r \in und : \A d \in und : r <= d
                 b == CHOOSE r \in und : \A d \in und : r >= d
             IN  IF grid[a][col] = excess
                 THEN [deleted |-> withCells(s.deleted, {<<a, col>>}),
                       confirmed |-> withCells(s.confirmed, {<<b, col>>})]
                 ELSE IF grid[b][col] = excess
                 THEN [deleted |-> withCells(s.deleted, {<<b, col>>}),
                       confirmed |-> withCells(s.confirmed, {<<a, col>>})]
                 ELSE IF grid[a][col] + grid[b][col] = excess
                 THEN [s EXCEPT !.deleted = withCells(s.deleted, {<<a, col>>, <<b, col>>})]
                 ELSE s
        ELSE s

RECURSIVE LS_subsetSumCols(_, _, _, _, _)
LS_subsetSumCols(n, grid, T, s, k) ==
    IF k = 0 THEN s
    ELSE LET before == LS_subsetSumCols(n, grid, T, s, k - 1)
         IN  InOrder(before, LS_subsetSumCol(n, grid, T, before, k - 1))

LS_applyAdvancedDeduction(n, grid, T, s) ==
    LET afterRows == SS_subsetSumRows(n, grid, T, s, n)
    IN  InOrder(afterRows, LS_subsetSumCols(n, grid, T, afterRows, n))

LS_maxSteps == 100

\* r = [s, steps, changed, forced, intersection, advanced, total, moveHistory]
LogicalSolverStart(n) ==
    [s |-> NewSolverState(n), steps |-> 0, changed |-> TRUE,
     forced |-> 0, intersection |-> 0, advanced |-> 0, total |-> 0, moveHistory |-> <<>>]

LogicalSolverLoopCond(n, grid, T, r) ==
    r.changed /\ r.steps < LS_maxSteps /\ ~isSolved(n, grid, T, r.s)

\* a pass that counts its step but not the total of the breakdown
LogicalSolverPassed_NoTotal(r, byForced, byIntersection, byAdvanced) ==
    IF byForced # r.s
    THEN [r EXCEPT !.s = byForced, !.changed = TRUE, !.forced = @ + 1,
                   !.steps = @ + 1, !.moveHistory = Append(@, "forced")]
    ELSE IF byIntersection # r.s
    THEN [r EXCEPT !.s = byIntersection, !.changed = TRUE, !.intersection = @ + 1,
                   !.steps = @ + 1, !.moveHistory = Append(@, "intersection")]
    ELSE IF byAdvanced # r.s
    THEN [r EXCEPT !.s = byAdvanced, !.changed = TRUE, !.advanced = @ + 1,
                   !.steps = @ + 1, !.moveHistory = Append(@, "advanced")]
    ELSE [r EXCEPT !.changed = FALSE]

\* one iteration of solve()'s while loop: the first rule that changes the
\* state; a later rule is applied only when the ones before changed nothing
LogicalSolverPassed(r, byForced, byIntersection, byAdvanced) ==
    IF byForced # r.s
    THEN [r EXCEPT !.s = byForced, !.changed = TRUE, !.forced = @ + 1, !.total = @ + 1,
                   !.steps = @ + 1, !.moveHistory = Append(@, "forced")]
    ELSE IF byIntersection # r.s
    THEN [r EXCEPT !.s = byIntersection, !.changed = TRUE, !.intersection = @ + 1,
                   !.total = @ + 1, !.steps = @ + 1,
                   !.moveHistory = Append(@, "intersection")]
    ELSE IF byAdvanced # r.s
    THEN [r EXCEPT !.s = byAdvanced, !.changed = TRUE, !.advanced = @ + 1, !.total = @ + 1,
                   !.steps = @ + 1, !.moveHistory = Append(@, "advanced")]
    ELSE [r EXCEPT !.changed = FALSE]

LogicalSolverPass(n, grid, T, r) ==
    LogicalSolverPassed(r, LS_applyForcedMoves(n, grid, T, r.s),
                        LS_applyIntersectionLogic(n, grid, T, r.s),
                        LS_applyAdvancedDeduction(n, grid, T, r.s))

RECURSIVE LogicalSolverRun(_, _, _, _)
LogicalSolverRun(n, grid, T, r) ==
    IF LogicalSolverLoopCond(n, grid, T, r)
    THEN LogicalSolverRun(n, grid, T, LogicalSolverPass(n, grid, T, r))
    ELSE r

\* a result that never flags guessing
LogicalSolverResult_NeverGuessing(r, solved) ==
    [solved |-> solved, steps |-> r.steps,
     requiredGuessing |-> FALSE,
     strategyBreakdown |-> [forced |-> r.forced, intersection |-> r.intersection,
                            advanced |-> r.advanced, total |-> r.total],
     moveHistory |-> r.moveHistory]

\* what solve() returns when its loop ends with the loop variables r
LogicalSolverResult(r, solved) ==
    [solved |-> solved, steps |-> r.steps,
     requiredGuessing |-> (~solved /\ ~r.changed),
     strategyBreakdown |-> [forced |-> r.forced, intersection |-> r.intersection,
                            advanced |-> r.advanced, total |-> r.total],
     moveHistory |-> r.moveHistory]

LogicalSolverFinish(n, grid, T, r) == LogicalSolverResult(r, isSolved(n, grid, T, r.s))

\* LogicalSolver.solve(): { solved, steps, requiredGuessing, strategyBreakdown, moveHistory }
LogicalSolverSolve(n, grid, T) ==
    LogicalSolverFinish(n, grid, T, LogicalSolverRun(n, grid, T, LogicalSolverStart(n)))

\* ------------------------------------------------------------ profiles
\* difficultySettings of the four PuzzleGenerator variants.  A field a profile
\* does not set is 0 here: the code only tests such a field for truthiness.
Variants == {"strategy", "basic", "enhanced", "validated"}
KnownDifficulties == {"easy", "medium", "hard"}

settingsKey_DefaultEasy(difficulty) ==
    IF difficulty \in KnownDifficulties THEN difficulty ELSE "easy"

\* difficultySettings[difficulty] || difficultySettings.medium
settingsKey(difficulty) == IF difficulty \in KnownDifficulties THEN difficulty ELSE "medium"

strategySettings ==
    [easy |-> [minValue |-> 1, maxValue |-> 5, minDeletions |-> 8, maxDeletions |-> 12,
               minSteps |-> 5, maxSteps |-> 15,
               minForcedMovePercent |-> 70, maxForcedMovePercent |-> 0,
               minIntersectionPercent |-> 0, maxIntersectionPercent |-> 30,
               minAdvancedPercent |-> 0, maxAdvancedPercent |-> 0,
               patternTemplates |-> <<"rowComplete", "columnComplete", "obviousExcess">>],
     medium |-> [minValue |-> 1, maxValue |-> 8, minDeletions |-> 15, maxDeletions |-> 20,
               minSteps |-> 15, maxSteps |-> 30,
               minForcedMovePercent |-> 30, maxForcedMovePercent |-> 50,
               minIntersectionPercent |-> 30, maxIntersectionPercent |-> 50,
               minAdvancedPercent |-> 0, maxAdvancedPercent |-> 20,
               patternTemplates |-> <<"intersectionRequired", "cascading", "balancedConstraints">>],
     hard |-> [minValue |-> 2, maxValue |-> 12, minDeletions |-> 22, maxDeletions |-> 28,
               minSteps |-> 30, maxSteps |-> 50,
               minForcedMovePercent |-> 0, maxForcedMovePercent |-> 30,
               minIntersectionPercent |-> 30, maxIntersectionPercent |-> 40,
               minAdvancedPercent |-> 30, maxAdvancedPercent |-> 0,
               patternTemplates |-> <<"complex", "multiConstraint", "deepLogic">>]]

validatedSettings ==
    [easy |-> [minValue |-> 1, maxValue |-> 5, minDeletions |-> 8, maxDeletions |-> 12,
               requireUniqueSolution |-> TRUE, minForcedMoves |-> 4, maxAmbiguity |-> 2],
     medium |-> [minValue |-> 1, maxValue |-> 8, minDeletions |-> 14, maxDeletions |-> 18,
               requireUniqueSolution |-> TRUE, minForcedMoves |-> 2, maxAmbiguity |-> 4],
     hard |-> [minValue |-> 2, maxValue |-> 11, minDeletions |-> 20, maxDeletions |-> 26,
               requireUniqueSolution |-> TRUE, minForcedMoves |-> 0, maxAmbiguity |-> 6]]

basicSettings ==
    [easy |-> [minValue |-> 1, maxValue |-> 6, minKeepCells |-> 4, maxKeepCells |-> 6,
               maxDuplicates |-> 4],
     medium |-> [minValue |-> 1, maxValue |-> 9, minKeepCells |-> 2, maxKeepCells |-> 5,
               maxDuplicates |-> 3],
     hard |-> [minValue |-> 1, maxValue |-> 9, minKeepCells |-> 1, maxKeepCells |-> 6,
               maxDuplicates |-> 2]]

enhancedSettings ==
    [easy |-> [minValue |-> 1, maxValue |-> 5, minKeepCells |-> 5, maxKeepCells |-> 7,
               maxDuplicates |-> 2],
     medium |-> [minValue |-> 1, maxValue |-> 9, minKeepCells |-> 3, maxKeepCells |-> 5,
               maxDuplicates |-> 3],
     hard |-> [minValue |-> 2, maxValue |-> 12, minKeepCells |-> 1, maxKeepCells |-> 4,
               maxDuplicates |-> 4]]

\* the constructor: Object.assign(this, settings) / this.minValue = settings.minValue ...
settingsOf(variant, difficulty) ==
    CASE variant = "strategy" -> strategySettings[settingsKey(difficulty)]
      [] variant = "validated" -> validatedSettings[settingsKey(difficulty)]
      [] variant = "basic" -> basicSettings[settingsKey(difficulty)]
      [] variant = "enhanced" -> enhancedSettings[settingsKey(difficulty)]

\* this.maxAttempts as the constructor sets it
constructorMaxAttempts(variant) ==
    CASE variant = "strategy" -> 100
      [] variant = "validated" -> 30
      [] variant = "basic" -> 1000
      [] variant = "enhanced" -> 1000

\* The profiles count deleted cells and solver steps of a ProgramSize x
\* ProgramSize grid.  A generator constructed with size n uses the same
\* share of its n x n cells; at n = ProgramSize this is the profile's number.
ScaleCells(n, x) == (x * n * n) \div (ProgramSize * ProgramSize)

\* ------------------------------------------------------ fallback puzzles
Matrix(rows) == [i \in 0 .. (Len(rows) - 1) |->
                    [j \in 0 .. (Len(rows[i + 1]) - 1) |-> rows[i + 1][j + 1]]]
Vector(xs) == [i \in 0 .. (Len(xs) - 1) |-> xs[i + 1]]

strategyFallbackPuzzles ==
    [easy |-> [grid |-> Matrix(<< <<3, 2, 4, 1, 5, 2, 3>>, <<1, 4, 2, 3, 2, 4, 1>>,
                                  <<5, 1, 3, 2, 4, 1, 5>>, <<2, 3, 1, 4, 1, 5, 2>>,
                                  <<4, 2, 5, 1, 3, 2, 4>>, <<1, 5, 2, 3, 2, 4, 1>>,
                                  <<3, 1, 4, 2, 5, 1, 3>> >>),
               rowTargets |-> Vector(<<15, 11, 16, 12, 14, 10, 13>>),
               colTargets |-> Vector(<<14, 12, 15, 10, 16, 11, 13>>),
               solutionMask |-> Matrix(<<
                   <<TRUE, FALSE, TRUE, TRUE, TRUE, TRUE, TRUE>>,
                   <<TRUE, TRUE, FALSE, TRUE, TRUE, TRUE, FALSE>>,
                   <<TRUE, TRUE, TRUE, FALSE, TRUE, TRUE, TRUE>>,
                   <<FALSE, TRUE, TRUE, TRUE, FALSE, TRUE, TRUE>>,
                   <<TRUE, FALSE, TRUE, TRUE, TRUE, FALSE, TRUE>>,
                   <<TRUE, TRUE, FALSE, TRUE, FALSE, TRUE, TRUE>>,
                   <<TRUE, TRUE, TRUE, FALSE, TRUE, TRUE, FALSE>> >>),
               difficulty |-> "easy"],
     medium |-> [grid |-> Matrix(<< <<7, 3, 8, 2, 6, 4, 9>>, <<4, 9, 1, 7, 3, 8, 2>>,
                                  <<2, 6, 4, 9, 1, 5, 7>>, <<8, 1, 7, 3, 9, 2, 6>>,
                                  <<5, 8, 2, 6, 4, 7, 1>>, <<9, 4, 6, 1, 8, 3, 5>>,
                                  <<1, 7, 3, 5, 2, 9, 4>> >>),
               rowTargets |-> Vector(<<24, 18, 22, 20, 15, 26, 17>>),
               colTargets |-> Vector(<<25, 20, 19, 18, 21, 24, 15>>),
               solutionMask |-> Matrix(<<
                   <<TRUE, FALSE, TRUE, FALSE, TRUE, TRUE, TRUE>>,
                   <<FALSE, TRUE, TRUE, TRUE, FALSE, TRUE, TRUE>>,
                   <<TRUE, TRUE, FALSE, TRUE, TRUE, FALSE, TRUE>>,
                   <<TRUE, FALSE, TRUE, TRUE, TRUE, FALSE, TRUE>>,
                   <<FALSE, TRUE, TRUE, FALSE, TRUE, TRUE, FALSE>>,
                   <<TRUE, TRUE, TRUE, FALSE, TRUE, TRUE, TRUE>>,
                   <<TRUE, TRUE, FALSE, TRUE, FALSE, TRUE, TRUE>> >>),
               difficulty |-> "medium"],
     hard |-> [grid |-> Matrix(<< <<11, 5, 9, 3, 12, 7, 10>>, <<6, 12, 4, 10, 5, 11, 3>>,
                                  <<9, 3, 11, 6, 8, 4, 12>>, <<4, 10, 5, 12, 3, 9, 6>>,
                                  <<12, 6, 8, 4, 11, 5, 10>>, <<7, 11, 3, 9, 6, 12, 4>>,
                                  <<10, 4, 12, 5, 9, 3, 11>> >>),
               rowTargets |-> Vector(<<28, 20, 35, 18, 30, 24, 32>>),
               colTargets |-> Vector(<<33, 25, 28, 19, 31, 22, 29>>),
               solutionMask |-> Matrix(<<
                   <<FALSE, TRUE, TRUE, FALSE, TRUE, FALSE, TRUE>>,
                   <<TRUE, FALSE, FALSE, TRUE, TRUE, TRUE, FALSE>>,
                   <<TRUE, FALSE, TRUE, TRUE, TRUE, FALSE, TRUE>>,
                   <<FALSE, TRUE, FALSE, TRUE, FALSE, TRUE, TRUE>>,
                   <<TRUE, FALSE, TRUE, FALSE, TRUE, TRUE, TRUE>>,
                   <<TRUE, TRUE, FALSE, TRUE, FALSE, TRUE, FALSE>>,
                   <<TRUE, FALSE, TRUE, FALSE, TRUE, FALSE, TRUE>> >>),
               difficulty |-> "hard"]]

\* part_001 has one fallback; its difficulty field is the generator's
basicFallbackPuzzle(difficulty) ==
    [grid |-> Matrix(<< <<3, 7, 2, 8, 1, 6, 4>>, <<5, 1, 9, 3, 7, 2, 8>>,
                        <<2, 8, 4, 6, 3, 1, 7>>, <<7, 3, 6, 1, 9, 4, 2>>,
                        <<1, 5, 8, 7, 2, 9, 3>>, <<9, 2, 1, 4, 8, 3, 6>>,
                        <<4, 6, 3, 2, 5, 7, 1>> >>),
     rowTargets |-> Vector(<<15, 20, 18, 16, 22, 19, 14>>),
     colTargets |-> Vector(<<17, 21, 19, 15, 18, 16, 20>>),
     solutionMask |-> AllTrue(7),
     difficulty |-> difficulty]

enhancedFallbackPuzzles ==
    [easy |-> [grid |-> Matrix(<< <<2, 3, 1, 4, 2, 3, 1>>, <<1, 2, 3, 1, 4, 2, 3>>,
                                  <<3, 1, 2, 3, 1, 4, 2>>, <<2, 4, 1, 2, 3, 1, 4>>,
                                  <<4, 2, 3, 1, 2, 3, 1>>, <<1, 3, 4, 2, 1, 2, 3>>,
                                  <<3, 1, 2, 4, 3, 1, 2>> >>),
               rowTargets |-> Vector(<<10, 12, 11, 9, 13, 11, 10>>),
               colTargets |-> Vector(<<11, 10, 12, 10, 11, 9, 13>>),
               solutionMask |-> AllTrue(7),
               difficulty |-> "easy"],
     medium |-> [grid |-> Matrix(<< <<3, 7, 2, 8, 1, 6, 4>>, <<5, 1, 9, 3, 7, 2, 8>>,
                                  <<2, 8, 4, 6, 3, 1, 7>>, <<7, 3, 6, 1, 9, 4, 2>>,
                                  <<1, 5, 8, 7, 2, 9, 3>>, <<9, 2, 1, 4, 8, 3, 6>>,
                                  <<4, 6, 3, 2, 5, 7, 1>> >>),
               rowTargets |-> Vector(<<15, 20, 18, 16, 22, 19, 14>>),
               colTargets |-> Vector(<<17, 21, 19, 15, 18, 16, 20>>),
               solutionMask |-> AllTrue(7),
               difficulty |-> "medium"],
     hard |-> [grid |-> Matrix(<< <<8, 12, 3, 10, 5, 9, 7>>, <<6, 4, 11, 8, 12, 3, 10>>,
                                  <<10, 7, 5, 12, 6, 8, 4>>, <<12, 9, 8, 4, 11, 6, 10>>,
                                  <<5, 11, 10, 7, 3, 12, 8>>, <<7, 3, 12, 9, 10, 5, 11>>,
                                  <<11, 8, 6, 5, 7, 10, 3>> >>),
               rowTargets |-> Vector(<<25, 30, 28, 32, 26, 29, 24>>),
               colTargets |-> Vector(<<28, 27, 30, 26, 29, 25, 31>>),
               solutionMask |-> AllTrue(7),
               difficulty |-> "hard"]]

generateFallbackPuzzle_AlwaysEasy(variant, difficulty) ==
    CASE variant \in {"strategy", "validated"} -> strategyFallbackPuzzles["easy"]
      [] variant = "basic" -> basicFallbackPuzzle("easy")
      [] variant = "enhanced" -> enhancedFallbackPuzzles["easy"]

\* fallbackPuzzles[this.difficulty] || fallbackPuzzles.medium; part_003 carries
\* the same three literals as src/js/puzzle-generator.js
generateFallbackPuzzle(variant, difficulty) ==
    CASE variant \in {"strategy", "validated"} -> strategyFallbackPuzzles[settingsKey(difficulty)]
      [] variant = "basic" -> basicFallbackPuzzle(difficulty)
      [] variant = "enhanced" -> enhancedFallbackPuzzles[settingsKey(difficulty)]

\* ----------------------------------------------------------- random draws
\* Math.random() is modelled by drawing from bounded sets.  A cell draw u in
\* 0 .. ValueSpan - 1 stands for Math.floor(Math.random() * range); a draw
\* matrix holds one cell draw per cell, at most MaxAbove of them above 0 on a
\* grid of Size, one fewer for each cell the grid is wider.
drawMatrices(n) ==
    {d \in [Idx(n) -> [Idx(n) -> 0 .. (ValueSpan - 1)]] :
        Cardinality({c \in Cells(n) : d[c[1]][c[2]] # 0}) <= MaxAbove - (n - Size)}

\* Math.floor(Math.random() * range) for the draw u
floorRandom(u, range) == IF u < range THEN u ELSE range - 1

\* this.minValue + Math.floor(Math.random() * (this.maxValue - this.minValue + 1))
randomValue(p, u) == p.minValue + floorRandom(u, p.maxValue - p.minValue + 1)

RECURSIVE gcd(_, _)
gcd(a, b) == IF b = 0 THEN a ELSE gcd(b, a % b)

\* The cell orders a shuffle of all positions (or a sort by random priority)
\* is drawn from: start at any cell, step by any t coprime to n * n.
cellOrders(n) ==
    {[k \in 1 .. (n * n) |-> << ((s + (k - 1) * t) % (n * n)) \div n,
                                ((s + (k - 1) * t) % (n * n)) % n >>] :
        s \in 0 .. (n * n - 1), t \in {u \in 1 .. (n * n - 1) : gcd(u, n * n) = 1}}

\* ascending sequence of a finite set of integers
RECURSIVE sortedSeq(_)
sortedSeq(S) ==
    IF S = {} THEN <<>>
    ELSE LET m == CHOOSE x \in S : \A y \in S : x <= y
         IN  <<m>> \o sortedSeq(S \ {m})

\* -------------------------------------------- strategy variant: grid sampler
baseValue(p) == (p.minValue + p.maxValue) \div 2

createRowCompletePattern(n, p, d) ==
    [i \in Idx(n) |-> [j \in Idx(n) |->
        IF i < 2 THEN baseValue(p) + (j % 2) ELSE randomValue(p, d[i][j])]]

createColumnCompletePattern(n, p, d) ==
    [i \in Idx(n) |-> [j \in Idx(n) |->
        IF j < 2 THEN baseValue(p) + (i % 2) ELSE randomValue(p, d[i][j])]]

createObviousExcessPattern(n, p, d) ==
    [i \in Idx(n) |-> [j \in Idx(n) |->
        IF (i + j) % 3 = 0 THEN p.maxValue ELSE p.minValue + floorRandom(d[i][j], 2)]]

createIntersectionPattern(n, p) ==
    [i \in Idx(n) |-> [j \in Idx(n) |->
        p.minValue + ((i * 3 + j * 2) % (p.maxValue - p.minValue + 1))]]

createCascadingPattern(n, p) ==
    LET pivot == n \div 2
        abs(x) == IF x < 0 THEN -x ELSE x
    IN  [i \in Idx(n) |-> [j \in Idx(n) |->
            p.minValue + ((abs(i - pivot) + abs(j - pivot)) % (p.maxValue - p.minValue + 1))]]

createBalancedPattern(n, p, d) ==
    [i \in Idx(n) |-> [j \in Idx(n) |-> randomValue(p, d[i][j])]]

createComplexPattern(n, p, d) ==
    [i \in Idx(n) |-> [j \in Idx(n) |->
        IF (i + j) % 4 = 0 THEN p.maxValue
        ELSE IF (i * j) % 3 = 0 THEN p.minValue
        ELSE randomValue(p, d[i][j])]]

createBasicGrid(n, p, d) ==
    [i \in Idx(n) |-> [j \in Idx(n) |-> randomValue(p, d[i][j])]]

createGridWithPattern(n, p, template, d) ==
    CASE template = "rowComplete" -> createRowCompletePattern(n, p, d)
      [] template = "columnComplete" -> createColumnCompletePattern(n, p, d)
      [] template = "obviousExcess" -> createObviousExcessPattern(n, p, d)
      [] template = "intersectionRequired" -> createIntersectionPattern(n, p)
      [] template = "cascading" -> createCascadingPattern(n, p)
      [] template = "balancedConstraints" -> createBalancedPattern(n, p, d)
      [] template \in {"complex", "multiConstraint", "deepLogic"} -> createComplexPattern(n, p, d)
      [] OTHER -> createBasicGrid(n, p, d)

\* -------------------------------------------- strategy variant: mask sampler
\* positions sorted by priority, highest first.  `order` is the order of the
\* random base priorities; obviousExcess adds 2 to the cells holding maxValue,
\* which puts them ahead of every other cell.  The intersectionRequired bonus
\* is below 1 and leaves every order possible.
getDeletionPriority(n, grid, template, p, order) ==
    LET boosted(c) == grid[c[1]][c[2]] = p.maxValue
        plain(c) == ~boosted(c)
    IN  IF template = "obviousExcess"
        THEN SelectSeq(order, boosted) \o SelectSeq(order, plain)
        ELSE order

quickSolvabilityCheck(n, grid, targets) ==
    \A i \in Idx(n) :
        ~(\/ Accumulate([j \in Idx(n) |-> grid[i][j]], n) < targets.row[i]
          \/ Accumulate([r \in Idx(n) |-> grid[r][i]], n) < targets.col[i])

\* one turn of the for-of loop; st = [mask, deletions]
createIntelligentSolutionMask_Step(n, grid, targetDeletions, st, c) ==
    IF st.deletions >= targetDeletions THEN st
    ELSE LET mask == Set2(st.mask, c[1], c[2], FALSE)
             rowCount == CountTrue(mask[c[1]], n)
             colCount == CountTrue([r \in Idx(n) |-> mask[r][c[2]]], n)
         IN  IF rowCount < 2 \/ colCount < 2 THEN st
             ELSE IF ~quickSolvabilityCheck(n, grid, calculateTargets(n, grid, mask)) THEN st
             ELSE [mask |-> mask, deletions |-> st.deletions + 1]

RECURSIVE createIntelligentSolutionMask_Loop(_, _, _, _, _)
createIntelligentSolutionMask_Loop(n, grid, targetDeletions, priority, k) ==
    IF k = 0 THEN [mask |-> AllTrue(n), deletions |-> 0]
    ELSE createIntelligentSolutionMask_Step(n, grid, targetDeletions,
             createIntelligentSolutionMask_Loop(n, grid, targetDeletions, priority, k - 1),
             priority[k])

\* [ok, mask]: ok = FALSE stands for the null result
createIntelligentSolutionMask(n, grid, targetDeletions, priority) ==
    LET st == createIntelligentSolutionMask_Loop(n, grid, targetDeletions, priority, n * n)
    IN  [ok |-> st.deletions = targetDeletions, mask |-> st.mask]

\* ------------------------------------------- validated variant: samplers
createBalancedGrid(n, p, d) ==
    [i \in Idx(n) |-> [j \in Idx(n) |-> randomValue(p, d[i][j])]]

createSolutionMask_Step(n, targetDeletions, st, c) ==
    IF st.deletions >= targetDeletions THEN st
    ELSE LET mask == Set2(st.mask, c[1], c[2], FALSE)
             rowCount == CountTrue(mask[c[1]], n)
             colCount == CountTrue([r \in Idx(n) |-> mask[r][c[2]]], n)
         IN  IF rowCount < 2 \/ colCount < 2 THEN st
             ELSE [mask |-> mask, deletions |-> st.deletions + 1]

RECURSIVE createSolutionMask_Loop(_, _, _, _)
createSolutionMask_Loop(n, targetDeletions, positions, k) ==
    IF k = 0 THEN [mask |-> AllTrue(n), deletions |-> 0]
    ELSE createSolutionMask_Step(n, targetDeletions,
             createSolutionMask_Loop(n, targetDeletions, positions, k - 1), positions[k])

\* positions: the shuffled positions
createSolutionMask(n, targetDeletions, positions) ==
    LET st == createSolutionMask_Loop(n, targetDeletions, positions, n * n)
    IN  [ok |-> st.deletions = targetDeletions, mask |-> st.mask]

isValidConfiguration(n, p, grid, targets) ==
    \A i \in Idx(n) :
        /\ ~(\/ targets.row[i] > Accumulate([j \in Idx(n) |-> grid[i][j]], n)
             \/ targets.row[i] < p.minValue)
        /\ ~(\/ targets.col[i] > Accumulate([j \in Idx(n) |-> grid[j][i]], n)
             \/ targets.col[i] < p.minValue)

\* ------------------------------------ basic and enhanced variants: samplers
\* The columns one row can keep: rowKeepCount is drawn in minKeepCells ..
\* maxKeepCells and the first rowKeepCount entries of a shuffle of 0 .. n-1
\* are kept (a shuffle has only n entries).
rowKeepSets(n, p) ==
    {S \in SUBSET Idx(n) :
        \E k \in p.minKeepCells .. p.maxKeepCells :
            Cardinality(S) = (IF k < n THEN k ELSE n)}

\* number of members of S below x: x's position in the ascending list of S
rankIn(S, x) == Cardinality({y \in S : y < x})

\* keeps[i] is the set of columns row i keeps.  The column pass repairs a
\* column from its own cells only; shuffleArray returns a copy, so rowsToAdd
\* and rowsToRemove are used in ascending order.
createValidSolutionMask(n, p, keeps) ==
    LET kept(j) == {i \in Idx(n) : j \in keeps[i]}
        colCount(j) == Cardinality(kept(j))
        column(j) ==
            IF colCount(j) < p.minKeepCells
            THEN kept(j) \cup {i \in Idx(n) \ kept(j) :
                                  rankIn(Idx(n) \ kept(j), i) < p.minKeepCells - colCount(j)}
            ELSE IF colCount(j) > p.maxKeepCells
            THEN {i \in kept(j) : ~(rankIn(kept(j), i) < colCount(j) - p.maxKeepCells)}
            ELSE kept(j)
    IN  [i \in Idx(n) |-> [j \in Idx(n) |-> i \in column(j)]]

\* occurrences of v among the first k entries of f
countOf(f, k, v) == Cardinality({x \in 0 .. (k - 1) : f[x] = v})

\* enhanced, easy: the row is filled left to right from the values still below
\* maxDuplicates in it.  row holds the first j values.
createGrid_EasyCell(n, p, row, u, j) ==
    LET availableValues == sortedSeq({v \in p.minValue .. p.maxValue :
                               countOf(row, j, v) < p.maxDuplicates})
        value == IF Len(availableValues) > 0
                 THEN availableValues[floorRandom(u, Len(availableValues)) + 1]
                 ELSE randomValue(p, u)
    IN  [row EXCEPT ![j] = value]

RECURSIVE createGrid_EasyRow(_, _, _, _)
createGrid_EasyRow(n, p, drow, j) ==
    IF j = 0 THEN [x \in Idx(n) |-> 0]
    ELSE createGrid_EasyCell(n, p, createGrid_EasyRow(n, p, drow, j - 1), drow[j - 1], j - 1)

\* The do-while of the other profiles ends with the last value drawn: a value
\* below maxDuplicates at once, any value after 50 draws.
createGrid_Rows(n, p, easyBranch, d) ==
    IF easyBranch
    THEN [i \in Idx(n) |-> createGrid_EasyRow(n, p, d[i], n)]
    ELSE [i \in Idx(n) |-> [j \in Idx(n) |-> randomValue(p, d[i][j])]]

\* replaces col[pos] by a drawn value that is below maxDuplicates in the column
createGrid_Eligible_Present(n, p, col) ==
    {w \in p.minValue .. p.maxValue :
        countOf(col, n, w) > 0 /\ countOf(col, n, w) < p.maxDuplicates}

\* the values a draw of the column pass's do-while ends on
createGrid_Eligible(n, p, col) ==
    {w \in p.minValue .. p.maxValue : ~(countOf(col, n, w) >= p.maxDuplicates)}

createGrid_Change(n, p, col, pos, pick) ==
    LET eligible == sortedSeq(createGrid_Eligible(n, p, col))
    IN  IF Len(eligible) = 0 THEN col
        ELSE [col EXCEPT ![pos] = eligible[floorRandom(pick, Len(eligible)) + 1]]

RECURSIVE createGrid_ChangeAll(_, _, _, _, _, _)
createGrid_ChangeAll(n, p, col, toChange, k, pick) ==
    IF k = 0 THEN col
    ELSE createGrid_Change(n, p, createGrid_ChangeAll(n, p, col, toChange, k - 1, pick),
                           toChange[k], pick)

\* one turn of for (value in colCounts): the occurrences of value beyond the
\* first maxDuplicates are changed
createGrid_FixValue(n, p, c, value, pick) ==
    LET positions == sortedSeq({i \in Idx(n) : c[i] = value})
        toChange == SubSeq(positions, p.maxDuplicates + 1, Len(positions))
    IN  IF Len(positions) > p.maxDuplicates
        THEN createGrid_ChangeAll(n, p, c, toChange, Len(toChange), pick)
        ELSE c

\* for (value in colCounts), ascending: values minValue .. minValue + k - 1 done
RECURSIVE createGrid_FixColumn(_, _, _, _, _)
createGrid_FixColumn(n, p, col, k, pick) ==
    IF k = 0 THEN col
    ELSE createGrid_FixValue(n, p, createGrid_FixColumn(n, p, col, k - 1, pick),
                             p.minValue + k - 1, pick)

createGrid(n, p, easyBranch, d, pick) ==
    LET rows == createGrid_Rows(n, p, easyBranch, d)
        fixed == [j \in Idx(n) |->
                    createGrid_FixColumn(n, p, [i \in Idx(n) |-> rows[i][j]],
                                         p.maxValue - p.minValue + 1, pick)]
    IN  InOrder(rows, InOrder(fixed, [i \in Idx(n) |-> [j \in Idx(n) |-> fixed[j][i]]]))

validatePuzzle_RowsOnly(n, p, grid, solutionMask, targets) ==
    LET minDeletions == n - p.maxKeepCells
        maxDeletions == n - p.minKeepCells
        rowOk(i) ==
            LET fullRowSum == Accumulate([j \in Idx(n) |-> grid[i][j]], n)
                deletedCount == Cardinality({j \in Idx(n) : ~solutionMask[i][j]})
            IN  /\ fullRowSum # targets.row[i]
                /\ ~(deletedCount < minDeletions \/ deletedCount > maxDeletions)
    IN  \A i \in Idx(n) : rowOk(i)

validatePuzzle(n, p, grid, solutionMask, targets) ==
    LET minDeletions == n - p.maxKeepCells
        maxDeletions == n - p.minKeepCells
        rowOk(i) ==
            LET fullRowSum == Accumulate([j \in Idx(n) |-> grid[i][j]], n)
                deletedCount == Cardinality({j \in Idx(n) : ~solutionMask[i][j]})
            IN  /\ fullRowSum # targets.row[i]
                /\ ~(deletedCount < minDeletions \/ deletedCount > maxDeletions)
        colOk(j) ==
            LET fullColSum == Accumulate([i \in Idx(n) |-> grid[i][j]], n)
                deletedCount == Cardinality({i \in Idx(n) : ~solutionMask[i][j]})
            IN  /\ fullColSum # targets.col[j]
                /\ ~(deletedCount < minDeletions \/ deletedCount > maxDeletions)
    IN  (\A i \in Idx(n) : rowOk(i)) /\ (\A j \in Idx(n) : colOk(j))

\* --------------------------------------------------- strategy variant: gates
\* the percentages are compared as fractions: x / total * 100 < m  iff  x * 100 < m * total
meetsStrategyRequirements(p, solution) ==
    LET total == solution.strategyBreakdown.total
        forced == solution.strategyBreakdown.forced * 100
        intersection == solution.strategyBreakdown.intersection * 100
        advanced == solution.strategyBreakdown.advanced * 100
    IN  /\ total # 0
        /\ ~(p.minForcedMovePercent # 0 /\ forced < p.minForcedMovePercent * total)
        /\ ~(p.maxForcedMovePercent # 0 /\ forced > p.maxForcedMovePercent * total)
        /\ ~(p.minIntersectionPercent # 0 /\ intersection < p.minIntersectionPercent * total)
        /\ ~(p.maxIntersectionPercent # 0 /\ intersection > p.maxIntersectionPercent * total)
        /\ ~(p.minAdvancedPercent # 0 /\ advanced < p.minAdvancedPercent * total)
        /\ ~(p.maxAdvancedPercent # 0 /\ advanced > p.maxAdvancedPercent * total)

\* ------------------------------------------------------ attemptGeneration
\* A puzzle is [grid, solutionMask, rowTargets, colTargets, difficulty].  The
\* result of one turn of generate()'s loop is [ok, puzzle, solution]: ok = FALSE
\* stands for null, solution is what the turn's solver run returned.
NoPuzzle(n) ==
    [grid |-> [i \in Idx(n) |-> [j \in Idx(n) |-> 0]], solutionMask |-> AllTrue(n),
     rowTargets |-> [i \in Idx(n) |-> 0], colTargets |-> [j \in Idx(n) |-> 0],
     difficulty |-> "none"]
NoSolution == [solved |-> FALSE, requiredGuessing |-> FALSE, steps |-> 0]
Rejected(n) == [ok |-> FALSE, puzzle |-> NoPuzzle(n), solution |-> NoSolution]

newPuzzle(grid, solutionMask, targets, difficulty) ==
    [grid |-> grid, solutionMask |-> solutionMask,
     rowTargets |-> targets.row, colTargets |-> targets.col, difficulty |-> difficulty]

\* what the turn records of the solver's run
solverRun(solution) ==
    [solved |-> solution.solved, requiredGuessing |-> solution.requiredGuessing,
     steps |-> solution.steps]

solvableByLogic_Skipped(solution) == TRUE

\* "Check if puzzle is solvable through logical deduction only"
solvableByLogic(solution) == ~(~solution.solved \/ solution.requiredGuessing)

\* strategy variant, steps 5 and 6 once the solver has returned `solution`
strategyGates(n, p, difficulty, grid, solutionMask, targets, solution) ==
    IF ~solvableByLogic(solution) THEN Rejected(n)
    ELSE IF \/ solution.steps < ScaleCells(n, p.minSteps)
            \/ solution.steps > ScaleCells(n, p.maxSteps) THEN Rejected(n)
    ELSE IF ~meetsStrategyRequirements(p, solution) THEN Rejected(n)
    ELSE IF ~hasUniqueSolution(n, grid, targets) THEN Rejected(n)
    ELSE [ok |-> TRUE, puzzle |-> newPuzzle(grid, solutionMask, targets, difficulty),
          solution |-> solverRun(solution)]

\* strategy variant, step 4 on: targets is calculateTargets' result
strategySolve(n, p, difficulty, grid, solutionMask, targets) ==
    strategyGates(n, p, difficulty, grid, solutionMask, targets,
                  LogicalSolverSolve(n, grid, targets))

\* strategy variant, from step 3's result on: grid is createGridWithPattern's
\* grid and m is createIntelligentSolutionMask's [ok, mask]
attemptGeneration(n, p, difficulty, grid, m) ==
    IF ~m.ok THEN Rejected(n)
    ELSE strategySolve(n, p, difficulty, grid, m.mask, calculateTargets(n, grid, m.mask))

\* basic and enhanced variants: solutionMask is createValidSolutionMask's mask
\* (never null), grid is createGrid's grid
keep_attemptGeneration(n, p, difficulty, grid, solutionMask) ==
    LET targets == calculateTargets(n, grid, solutionMask)
    IN  IF validatePuzzle(n, p, grid, solutionMask, targets)
        THEN [ok |-> TRUE, puzzle |-> newPuzzle(grid, solutionMask, targets, difficulty),
              solution |-> NoSolution]
        ELSE Rejected(n)

\* validated variant: targets is calculateTargets' result
validated_configured(n, p, difficulty, grid, solutionMask, targets) ==
    IF ~isValidConfiguration(n, p, grid, targets) THEN Rejected(n)
    ELSE [ok |-> TRUE, puzzle |-> newPuzzle(grid, solutionMask, targets, difficulty),
          solution |-> NoSolution]

\* validated variant: grid is createBalancedGrid's grid, m is createSolutionMask's
validated_attemptGeneration(n, p, difficulty, grid, m) ==
    IF ~m.ok THEN Rejected(n)
    ELSE validated_configured(n, p, difficulty, grid, m.mask,
                              calculateTargets(n, grid, m.mask))

\* what validate() returns once the solver has returned `solution`
validationOf(solution) ==
    [isValid |-> TRUE, isSolvable |-> solution.solved,
     hasUniqueSolution |-> TRUE, complexity |-> solution.steps]

\* PuzzleValidator.validate
validate(n, puzzle) ==
    validationOf(SimpleSolverSolve(n, puzzle.grid,
                     [row |-> puzzle.rowTargets, col |-> puzzle.colTargets]))

validated_accept_Unvalidated(n, a, validation) ==
    [a EXCEPT !.solution = [solved |-> validation.isSolvable,
                            requiredGuessing |-> FALSE,
                            steps |-> validation.complexity]]

\* if (validation.isValid && validation.isSolvable) return puzzle
validated_accept(n, a, validation) ==
    IF validation.isValid /\ validation.isSolvable
    THEN [a EXCEPT !.solution = [solved |-> validation.isSolvable,
                                 requiredGuessing |-> FALSE,
                                 steps |-> validation.complexity]]
    ELSE Rejected(n)

\* if (puzzle) { ... validator.validate() ... }
validated_checked(n, a) ==
    IF a.ok THEN validated_accept(n, a, validate(n, a.puzzle)) ELSE Rejected(n)

\* validated variant: the body of generate()'s loop
validated_loopBody(n, p, difficulty, grid, m) ==
    validated_checked(n, validated_attemptGeneration(n, p, difficulty, grid, m))

deletionCounts_FromZero(n, p) == 0 .. ScaleCells(n, p.maxDeletions)

\* minDeletions + Math.floor(Math.random() * (maxDeletions - minDeletions + 1))
deletionCounts(n, p) == ScaleCells(n, p.minDeletions) .. ScaleCells(n, p.maxDeletions)

Range(f) == {f[x] : x \in DOMAIN f}

\* every result one turn of the loop can have, over the bounded draws
strategyTurns(n, p, difficulty) ==
    UNION {UNION {{attemptGeneration(n, p, difficulty, grid, m) :
                     m \in {createIntelligentSolutionMask(n, grid, c,
                               getDeletionPriority(n, grid, template, p, o)) :
                               c \in deletionCounts(n, p), o \in cellOrders(n)}} :
                  grid \in {createGridWithPattern(n, p, template, d) : d \in drawMatrices(n)}} :
           template \in Range(p.patternTemplates)}

validatedTurns(n, p, difficulty) ==
    LET masks == {createSolutionMask(n, c, o) : c \in deletionCounts(n, p), o \in cellOrders(n)}
        grids == {createBalancedGrid(n, p, d) : d \in drawMatrices(n)}
    IN  {validated_loopBody(n, p, difficulty, grid, m) : grid \in grids, m \in masks}

keepTurns(n, p, difficulty, easyBranch) ==
    LET masks == {createValidSolutionMask(n, p, keeps) : keeps \in [Idx(n) -> rowKeepSets(n, p)]}
        grids == {createGrid(n, p, easyBranch, d, pick) :
                     d \in drawMatrices(n), pick \in 0 .. (ValueSpan - 1)}
    IN  {keep_attemptGeneration(n, p, difficulty, grid, mask) : grid \in grids, mask \in masks}

loopTurns(v, n, difficulty) ==
    LET p == settingsOf(v, difficulty)
    IN  CASE v = "strategy" -> strategyTurns(n, p, difficulty)
          [] v = "validated" -> validatedTurns(n, p, difficulty)
          [] v = "basic" -> keepTurns(n, p, difficulty, FALSE)
          [] v = "enhanced" -> keepTurns(n, p, difficulty, difficulty = "easy")

\* ------------------------------------------------------------------ Timer
\* A Timer is [startTime, pausedTime, lastPauseStart, interval, completed,
\* isPaused].  0 stands for null in startTime and lastPauseStart (the code
\* tests both for truthiness), interval is whether a setInterval handle is
\* held.  `clock` is Date.now() at the call.  The page stays visible and
\* focused: the visibility listeners never run, pausedTime stays 0.
msPerSecond == 1000
secondsPerMinute == 60

NewTimer ==
    [startTime |-> 0, pausedTime |-> 0, lastPauseStart |-> 0,
     interval |-> FALSE, completed |-> FALSE, isPaused |-> FALSE]

isRunning(t) == t.interval

Timer_start(t, clock) ==
    IF t.interval
    THEN t
    ELSE [startTime |-> clock, pausedTime |-> 0, lastPauseStart |-> 0,
          interval |-> TRUE, completed |-> FALSE, isPaused |-> FALSE]

Timer_stop(t) == [t EXCEPT !.interval = FALSE, !.completed = TRUE, !.isPaused = FALSE]

Timer_reset(t) ==
    [Timer_stop(t) EXCEPT !.startTime = 0, !.pausedTime = 0, !.lastPauseStart = 0,
                          !.completed = FALSE, !.isPaused = FALSE]

getElapsedTime(t, clock) ==
    IF t.startTime = 0
    THEN 0
    ELSE LET totalPausedTime ==
                 IF t.isPaused /\ t.lastPauseStart # 0
                 THEN t.pausedTime + (clock - t.lastPauseStart)
                 ELSE t.pausedTime
         IN  (clock - t.startTime - totalPausedTime) \div msPerSecond

\* A displayed time is [minutes, seconds, padded]: the two numbers printed
\* around the colon, and whether the minutes are padded to two digits.
NoTime == [minutes |-> 0, seconds |-> 0, padded |-> FALSE]

\* `${minutes padStart(2, '0')}:${seconds padStart(2, '0')}`
getFormattedTime(t, clock) ==
    LET elapsed == getElapsedTime(t, clock)
    IN  [minutes |-> elapsed \div secondsPerMinute,
         seconds |-> elapsed % secondsPerMinute, padded |-> TRUE]

\* UIRenderer.showWinStatus: `Solved in ${minutes}:${seconds padStart(2, '0')}!`
showWinStatus(t, clock) ==
    LET finalTime == getElapsedTime(t, clock)
    IN  [shown |-> TRUE,
         time |-> [minutes |-> finalTime \div secondsPerMinute,
                   seconds |-> finalTime % secondsPerMinute, padded |-> FALSE]]

\* UIRenderer.updateStatus(): the status line is emptied
updateStatus == [shown |-> FALSE, time |-> NoTime]

\* ------------------------------------------------------------------ state
VARIABLES
    genVariant,      \* which PuzzleGenerator source file the generator is
    genSize,         \* this.size
    genDifficulty,   \* this.difficulty
    maxAttempts,  \* this.maxAttempts
    attempt,      \* generate()'s loop variable
    calls,        \* number of loop turns (attemptGeneration calls) made so far
    pc,           \* "idle", "loop" while generate() runs, "returned" after
    returned,       \* what generate() returned
    origin,       \* "none", "generated" (an accepted attempt) or "fallback"
    solverResult,     \* the solver result of the accepted attempt
    gPc,          \* GameState: "new" after the constructor, "loaded" after
                  \* initializeWithPuzzle
    gGrid, gRowTargets, gColTargets,   \* GameState.grid, rowTargets, colTargets
    gDeleted, gConfirmed,              \* GameState.deleted, confirmed
    gToggles,     \* number of toggleCell calls since the puzzle was loaded
    gGameCompleted,   \* GameState.gameCompleted
    gCurrentPuzzle,   \* GameState.currentPuzzle (NoPuzzle(GameSize) for null)
    gSolutionMask,    \* GameState.solutionMask, the puzzle's own array
    gDifficulty,      \* GameState.difficulty
    gShowGuides,      \* GameState.showGuides
    gameInitialized,  \* DeductGame.gameInitialized
    timer,        \* DeductGame.timer, the Timer's fields
    now,          \* Date.now(), in milliseconds
    statusText,   \* the text of #gameStatus
    winModal,     \* #winModal: whether it is open, and the text of #winTime
    welcomeModal, \* whether #welcomeModal is open
    timeouts,     \* the times at which handleWin's pending setTimeout calls are due
    wins,         \* handleWin calls since the puzzle was loaded or reset
    plan,         \* the player: the cells to delete, and the other cells clicked
    offPlan,      \* clicks on other cells since the puzzle was loaded or reset
    lastEvent,    \* the event whose handler ran last
    uPc,          \* "idle", "ready" before hasUniqueSolution is called, "done" after,
                  \* "again" after the second calculateTargets call
    uGrid,        \* hasUniqueSolution's grid argument
    uMask,        \* the solutionMask calculateTargets was called with
    uTargets,     \* calculateTargets' result, hasUniqueSolution's targets argument
    uOut,         \* what the search left behind: [mask, solutions]
    uAgain,       \* the result of a second calculateTargets call on uGrid, uMask
    kPc,          \* attemptGeneration of part_001/part_002 run on its own:
                  \* "idle", "ready" before the call, "attempted" after
    kMask,        \* what createValidSolutionMask returned
    kGrid,        \* what createGrid returned
    kTargets,     \* what calculateTargets returned
    kValid,       \* what validatePuzzle returned
    sPc,          \* meetsStrategyRequirements run on its own: "idle", "ready", "checked"
    sSolution,    \* its argument: a LogicalSolver result
    sMeets,       \* what it returned
    vPc,          \* a solver's solve() run on its own: "idle", "run" while the
                  \* loop runs, "done" after solve() returned
    vSolver,      \* "simple" (SimpleSolver) or "logical" (LogicalSolver)
    vGrid,        \* the solver's grid
    vMask,        \* the solution mask its targets were calculated from
    vTargets,     \* the solver's targets
    vR,           \* solve()'s loop variables and the solver's fields
    vTrail,       \* the last pass: the cells at its entry, after the row loops of
                  \* its first rule, and after each rule it applied
    vResult,      \* what solve() returned
    vPasses,      \* iterations of solve()'s while loop begun so far
    vSize,        \* the side of the grid the solver was constructed on
    dPc,          \* a resampling loop of createGrid run on its own: "idle", "row"
                  \* (the do-while of one cell of a row), "col" (the do-while of
                  \* the column pass), "done"
    dLine,        \* the row filled so far, or the column being repaired
    dTodo,        \* the cell being drawn, or the positions still to change
    dAttempts     \* draws made so far for the current cell

genVars == <<genVariant, genSize, genDifficulty, maxAttempts, attempt, calls, pc, returned, origin, solverResult>>
stateVars == <<gGrid, gRowTargets, gColTargets, gDeleted, gConfirmed,
               gGameCompleted, gCurrentPuzzle, gSolutionMask, gDifficulty, gShowGuides>>
playVars == <<gameInitialized, timer, now, statusText, winModal, welcomeModal, timeouts,
              wins, plan, offPlan, lastEvent>>
gameVars == <<gPc, gToggles, stateVars, playVars>>
uVars == <<uPc, uGrid, uMask, uTargets, uOut, uAgain>>
kVars == <<kPc, kMask, kGrid, kTargets, kValid>>
sVars == <<sPc, sSolution, sMeets>>
vVars == <<vPc, vSolver, vGrid, vMask, vTargets, vR, vTrail, vResult, vPasses, vSize>>
dVars == <<dPc, dLine, dTodo, dAttempts>>
vars == <<genVariant, genSize, genDifficulty, maxAttempts, attempt, calls, pc, returned, origin, solverResult,
          gPc, gGrid, gRowTargets, gColTargets, gDeleted, gConfirmed, gToggles,
          gGameCompleted, gCurrentPuzzle, gSolutionMask, gDifficulty, gShowGuides,
          gameInitialized, timer, now, statusText, winModal, welcomeModal, timeouts,
          wins, plan, offPlan, lastEvent,
          uPc, uGrid, uMask, uTargets, uOut, uAgain,
          kPc, kMask, kGrid, kTargets, kValid, sPc, sSolution, sMeets,
          vPc, vSolver, vGrid, vMask, vTargets, vR, vTrail, vResult, vPasses, vSize,
          dPc, dLine, dTodo, dAttempts>>

NoTargets(n) == [row |-> [i \in Idx(n) |-> 0], col |-> [j \in Idx(n) |-> 0]]
NoSearch(n) == NewSearch(n)

Difficulties == KnownDifficulties \cup {"expert"}

\* no generator constructed
GenIdle ==
    /\ genVariant = "strategy" /\ genSize = Size /\ genDifficulty = "easy"
    /\ maxAttempts = 0 /\ attempt = 0 /\ calls = 0
    /\ pc = "idle" /\ returned = NoPuzzle(Size) /\ origin = "none" /\ solverResult = NoSolution

\* the delay of handleWin's setTimeout, in milliseconds
winModalDelay == 500

NoEvent == [name |-> "none", row |-> 0, col |-> 0]

\* new DeductGame(): a new Timer, gameInitialized = false, the welcome modal
\* shown.  The clock is read at multiples of winModalDelay.
DeductGameNew ==
    /\ gameInitialized = FALSE
    /\ timer = NewTimer
    /\ now = winModalDelay
    /\ statusText = updateStatus
    /\ winModal = [active |-> FALSE, time |-> NoTime]
    /\ welcomeModal = TRUE
    /\ timeouts = {}
    /\ wins = 0
    /\ plan = [delete |-> {}, probe |-> {<<0, 0>>}]
    /\ offPlan = 0
    /\ lastEvent = NoEvent

\* new GameState(): size 7; the arrays are filled by initializeWithPuzzle
GameNew ==
    /\ gPc = "new"
    /\ gGrid = NoPuzzle(GameSize).grid
    /\ gRowTargets = NoTargets(GameSize).row
    /\ gColTargets = NoTargets(GameSize).col
    /\ gDeleted = AllFalse(GameSize)
    /\ gConfirmed = AllFalse(GameSize)
    /\ gToggles = 0
    /\ gGameCompleted = FALSE
    /\ gCurrentPuzzle = NoPuzzle(GameSize)
    /\ gSolutionMask = NoPuzzle(GameSize).solutionMask
    /\ gDifficulty = "easy"
    /\ gShowGuides = TRUE
    /\ DeductGameNew

UIdle ==
    /\ uPc = "idle" /\ uGrid = NoPuzzle(Size).grid /\ uMask = AllTrue(Size)
    /\ uTargets = NoTargets(Size) /\ uOut = NoSearch(Size) /\ uAgain = NoTargets(Size)

KIdle ==
    /\ kPc = "idle" /\ kMask = AllTrue(Size) /\ kGrid = NoPuzzle(Size).grid
    /\ kTargets = NoTargets(Size) /\ kValid = FALSE

SIdle ==
    /\ sPc = "idle" /\ sSolution = NoSolution /\ sMeets = FALSE

NoTrail == [entry |-> NewSolverState(Size), rows |-> NewSolverState(Size), rules |-> <<>>]

DIdle == dPc = "idle" /\ dLine = [x \in Idx(Size) |-> 0] /\ dTodo = <<>> /\ dAttempts = 0

VIdle ==
    /\ vPc = "idle" /\ vSolver = "simple" /\ vGrid = NoPuzzle(Size).grid
    /\ vMask = AllTrue(Size) /\ vTargets = NoTargets(Size)
    /\ vR = SimpleSolverStart(Size) /\ vTrail = NoTrail /\ vResult = NoSolution
    /\ vPasses = 0 /\ vSize = Size

\* ------------------------------------------------------------- generate()
\* new PuzzleGenerator(n, difficulty) of any variant, generate() entered.
\* maxAttempts is the constructor's number cut down to MaxAttempts, or 0.
GenInit(n) ==
    /\ genVariant \in Variants
    /\ genSize = n
    /\ genDifficulty \in Difficulties
    /\ maxAttempts \in {0, IF constructorMaxAttempts(genVariant) < MaxAttempts
                           THEN constructorMaxAttempts(genVariant) ELSE MaxAttempts}
    /\ attempt = 0 /\ calls = 0
    /\ pc = "loop" /\ returned = NoPuzzle(n) /\ origin = "none" /\ solverResult = NoSolution

Init == GenInit(Size) /\ GameNew /\ UIdle /\ KIdle /\ SIdle /\ VIdle /\ DIdle

\* one turn of the for loop: attemptGeneration (and the validator), then
\* either return puzzle or attempt++
Attempt ==
    /\ pc = "loop"
    /\ attempt < maxAttempts
    /\ \E turn \in loopTurns(genVariant, genSize, genDifficulty) :
          IF turn.ok
          THEN /\ pc' = "returned"
               /\ returned' = turn.puzzle
               /\ origin' = "generated"
               /\ solverResult' = turn.solution
               /\ attempt' = attempt
          ELSE /\ attempt' = attempt + 1
               /\ UNCHANGED <<pc, returned, origin, solverResult>>
    /\ calls' = calls + 1
    /\ UNCHANGED <<genVariant, genSize, genDifficulty, maxAttempts>>
    /\ UNCHANGED <<gameVars, uVars, kVars, sVars, vVars, dVars>>

\* the fallback returned while attempts are still left
UseFallback_Early ==
    /\ pc = "loop"
    /\ pc' = "returned"
    /\ returned' = generateFallbackPuzzle(genVariant, genDifficulty)
    /\ origin' = "fallback"
    /\ UNCHANGED <<genVariant, genSize, genDifficulty, maxAttempts, attempt, calls, solverResult>>
    /\ UNCHANGED <<gameVars, uVars, kVars, sVars, vVars, dVars>>

\* the loop is over: return this.generateFallbackPuzzle()
UseFallback ==
    /\ pc = "loop"
    /\ ~(attempt < maxAttempts)
    /\ pc' = "returned"
    /\ returned' = generateFallbackPuzzle(genVariant, genDifficulty)
    /\ origin' = "fallback"
    /\ UNCHANGED <<genVariant, genSize, genDifficulty, maxAttempts, attempt, calls, solverResult>>
    /\ UNCHANGED <<gameVars, uVars, kVars, sVars, vVars, dVars>>

Next == Attempt \/ UseFallback
Spec == Init /\ [][Next]_vars
\* generate() is one synchronous call: while it runs (pc = "loop") its next
\* step is taken.  Every step of Next counts a turn or returns, and one of the
\* two is possible whenever pc = "loop"; Step says so much of Next.
Step ==
    /\ pc = "loop"
    /\ \E c \in {calls, calls + 1}, p \in {"loop", "returned"} :
          /\ c = calls + 1 \/ p = "returned"
          /\ calls' = c
          /\ pc' = p
FairSpec == Spec /\ WF_<<calls, pc>>(Step)

\* the generator of part_003 on a grid one cell wider, medium profile
WideInit ==
    /\ GenInit(Size + 1) /\ genVariant = "validated" /\ genDifficulty = "medium"
    /\ GameNew /\ UIdle /\ KIdle /\ SIdle /\ VIdle /\ DIdle
WideSpec == WideInit /\ [][Next]_vars

\* --------------------------------------------- uniqueness search, stand-alone
\* grids whose cells are drawn from 1 .. ValueSpan
UGrids == [Idx(Size) -> [Idx(Size) -> 1 .. ValueSpan]]
\* masks with at most Size deleted cells, any shape (the >= 2 floor is not imposed)
UMasks == {m \in [Idx(Size) -> [Idx(Size) -> BOOLEAN]] :
              Cardinality({c \in Cells(Size) : ~m[c[1]][c[2]]}) <= Size}

UInit ==
    /\ uPc = "ready"
    /\ uGrid \in UGrids
    /\ uMask = AllTrue(Size)
    /\ uTargets = NoTargets(Size)
    /\ uOut = NoSearch(Size)
    /\ uAgain = NoTargets(Size)
    /\ GenIdle /\ GameNew /\ KIdle /\ SIdle /\ VIdle /\ DIdle

\* targets = calculateTargets(uGrid, m) for some mask m, then
\* hasUniqueSolution(uGrid, targets)
URunSearch ==
    /\ uPc = "ready"
    /\ \E m \in UMasks :
          /\ uMask' = m
          /\ uTargets' = calculateTargets(Size, uGrid, m)
          /\ uOut' = uniquenessSearch(Size, uGrid, uTargets')
    /\ uPc' = "done"
    /\ UNCHANGED <<uGrid, uAgain>>
    /\ UNCHANGED <<genVars, gameVars, kVars, sVars, vVars, dVars>>

\* the sums of a second call added to what the first call returned
UCalculateAgain_Accumulating ==
    /\ uPc = "done"
    /\ uPc' = "again"
    /\ uAgain' = LET T == calculateTargets(Size, uGrid, uMask)
                 IN  [row |-> [i \in Idx(Size) |-> uTargets.row[i] + T.row[i]],
                      col |-> [j \in Idx(Size) |-> uTargets.col[j] + T.col[j]]]
    /\ UNCHANGED <<uGrid, uMask, uTargets, uOut>>
    /\ UNCHANGED <<genVars, gameVars, kVars, sVars, vVars, dVars>>

\* calculateTargets(uGrid, uMask) called a second time: it fills two new local
\* arrays and writes to nothing else
UCalculateAgain ==
    /\ uPc = "done"
    /\ uPc' = "again"
    /\ uAgain' = calculateTargets(Size, uGrid, uMask)
    /\ UNCHANGED <<uGrid, uMask, uTargets, uOut>>
    /\ UNCHANGED <<genVars, gameVars, kVars, sVars, vVars, dVars>>

UNext == URunSearch \/ UCalculateAgain
USpec == UInit /\ [][UNext]_vars

\* ------------------------------------------------------------- GameState
\* the program: new PuzzleGenerator(7, difficulty).generate(), here with
\* maxAttempts = 0, then gameState.initializeWithPuzzle(puzzle) and clicks
GameInit ==
    GenInit(ProgramSize) /\ maxAttempts = 0 /\ GameNew /\ UIdle /\ KIdle /\ SIdle /\ VIdle /\ DIdle

\* the assignments of initializeWithPuzzle(puzzle): grid and targets are
\* copied, currentPuzzle and solutionMask are the puzzle's own objects
loadPuzzle(puzzle) ==
    /\ gPc' = "loaded"
    /\ gCurrentPuzzle' = puzzle
    /\ gGrid' = puzzle.grid
    /\ gRowTargets' = puzzle.rowTargets
    /\ gColTargets' = puzzle.colTargets
    /\ gSolutionMask' = puzzle.solutionMask
    /\ gDifficulty' = puzzle.difficulty
    /\ gDeleted' = AllFalse(GameSize)
    /\ gConfirmed' = AllFalse(GameSize)
    /\ gGameCompleted' = FALSE

initializeWithPuzzle ==
    /\ pc = "returned"
    /\ gPc = "new"
    /\ loadPuzzle(returned)
    /\ gToggles' = 0
    /\ UNCHANGED <<gShowGuides, playVars>>
    /\ UNCHANGED <<genVars, uVars, kVars, sVars, vVars, dVars>>

\* toggleCell's two arrays after the call, with only deleted of a normal
\* cell and its way back
toggled_TwoStates(deleted, confirmed, row, col) ==
    IF ~deleted[row][col]
    THEN [deleted |-> Set2(deleted, row, col, TRUE), confirmed |-> confirmed]
    ELSE [deleted |-> Set2(deleted, row, col, FALSE), confirmed |-> confirmed]

\* toggleCell's two arrays after the call, a deletion unconfirming the row
toggled_ClearsRow(deleted, confirmed, row, col) ==
    IF ~confirmed[row][col] /\ ~deleted[row][col]
    THEN [deleted |-> Set2(deleted, row, col, TRUE),
          confirmed |-> [confirmed EXCEPT ![row] = [j \in Idx(GameSize) |-> FALSE]]]
    ELSE IF deleted[row][col]
    THEN [deleted |-> Set2(deleted, row, col, FALSE),
          confirmed |-> Set2(confirmed, row, col, TRUE)]
    ELSE [deleted |-> deleted, confirmed |-> Set2(confirmed, row, col, FALSE)]

\* this.deleted and this.confirmed after toggleCell(row, col)
toggled(deleted, confirmed, row, col) ==
    IF ~confirmed[row][col] /\ ~deleted[row][col]
    THEN [deleted |-> Set2(deleted, row, col, TRUE), confirmed |-> confirmed]
    ELSE IF deleted[row][col]
    THEN [deleted |-> Set2(deleted, row, col, FALSE),
          confirmed |-> Set2(confirmed, row, col, TRUE)]
    ELSE [deleted |-> deleted, confirmed |-> Set2(confirmed, row, col, FALSE)]

\* normal -> deleted -> confirmed -> normal
toggleCell(row, col) ==
    /\ gPc = "loaded"
    /\ gToggles < MaxToggles
    /\ gDeleted' = toggled(gDeleted, gConfirmed, row, col).deleted
    /\ gConfirmed' = toggled(gDeleted, gConfirmed, row, col).confirmed
    /\ gToggles' = gToggles + 1
    /\ UNCHANGED <<gPc, gGrid, gRowTargets, gColTargets>>
    /\ UNCHANGED <<gGameCompleted, gCurrentPuzzle, gSolutionMask, gDifficulty, gShowGuides,
                   playVars>>
    /\ UNCHANGED <<genVars, uVars, kVars, sVars, vVars, dVars>>

ToggleCell == \E row \in Idx(GameSize), col \in Idx(GameSize) : toggleCell(row, col)

getCurrentRowSum_All(grid, deleted, row) ==
    Accumulate([col \in Idx(GameSize) |-> grid[row][col]], GameSize)

getCurrentRowSum(grid, deleted, row) ==
    Accumulate([col \in Idx(GameSize) |-> IF ~deleted[row][col] THEN grid[row][col] ELSE 0],
               GameSize)
getCurrentColSum(grid, deleted, col) ==
    Accumulate([row \in Idx(GameSize) |-> IF ~deleted[row][col] THEN grid[row][col] ELSE 0],
               GameSize)

\* checkWin() of a game with these arrays
checkWinOf(grid, rowTargets, colTargets, deleted) ==
    \A i \in Idx(GameSize) :
        /\ getCurrentRowSum(grid, deleted, i) = rowTargets[i]
        /\ getCurrentColSum(grid, deleted, i) = colTargets[i]

checkWin == checkWinOf(gGrid, gRowTargets, gColTargets, gDeleted)

GameNext == UseFallback \/ initializeWithPuzzle \/ ToggleCell
GameSpec == GameInit /\ [][GameNext]_vars

\* --- which deletion sets win
\* the sets of columns whose deletion brings `row` to its target
rowDeletions(grid, rowTargets, row) ==
    {D \in SUBSET Idx(GameSize) :
        Accumulate([col \in Idx(GameSize) |-> IF col \in D THEN 0 ELSE grid[row][col]],
                   GameSize) = rowTargets[row]}

\* Some deletion set over the rows from `row` on wins, colSums being the sums
\* the rows above it leave in the columns.  The cell values are positive, so a
\* column already above its target stays above it.
RECURSIVE canWinFrom(_, _, _, _, _)
canWinFrom(grid, choices, colTargets, row, colSums) ==
    IF row = GameSize
    THEN colSums = colTargets
    ELSE \E D \in choices[row] :
            LET sums == [col \in Idx(GameSize) |->
                            colSums[col] + (IF col \in D THEN 0 ELSE grid[row][col])]
            IN  /\ \A col \in Idx(GameSize) : sums[col] <= colTargets[col]
                /\ canWinFrom(grid, choices, colTargets, row + 1, sums)

\* some deletion set makes checkWin() true
winnable(grid, rowTargets, colTargets) ==
    LET choices == [row \in Idx(GameSize) |-> rowDeletions(grid, rowTargets, row)]
    IN  InOrder(choices, canWinFrom(grid, choices, colTargets, 0,
                                    [col \in Idx(GameSize) |-> 0]))

\* ------------------------------------------------------------ DeductGame
\* main.js: the event handlers of DeductGame, with the GameState and the Timer
\* they work on.  newPuzzle() builds new PuzzleGenerator(7, difficulty) and
\* calls generate(), taken here with every attempt failing (the fallback).
MaxTicks == 2
MaxProbes == 3
ProbeCount == 1

cellIndex(c) == c[1] * GameSize + c[2]

\* the first ProbeCount cells outside the deletion set
probeCells(deletions) ==
    LET others == Cells(GameSize) \ deletions
    IN  {c \in others :
            Cardinality({d \in others : cellIndex(d) < cellIndex(c)}) < ProbeCount}

\* main.js imports PuzzleGenerator from puzzle-generator.js
PlayVariants == {"strategy"}

\* The player: a deletion set that wins the easy fallback, row by row.  No
\* deletion set wins the medium or the hard fallback.
winningDeletions ==
    [easy |-> ({0} \X {0, 5}) \cup ({1} \X {2, 5}) \cup ({2} \X {2, 3})
              \cup ({3} \X {0, 2, 4, 6}) \cup ({4} \X {3, 5, 6}) \cup ({5} \X {1, 3})
              \cup ({6} \X {1, 4}),
     medium |-> {},
     hard |-> {}]

PlayerPlans ==
    [v \in PlayVariants |->
        [d \in KnownDifficulties |->
            [delete |-> winningDeletions[d], probe |-> probeCells(winningDeletions[d])]]]

\* the cells of the plan not deleted yet
planLeft == {c \in plan.delete : ~gDeleted[c[1]][c[2]]}

\* The cells the player clicks: the next cell of the plan, or a probe cell.
ClickCells ==
    plan.probe \cup {c \in planLeft : \A d \in planLeft : cellIndex(c) <= cellIndex(d)}

Event(name) == [name |-> name, row |-> 0, col |-> 0]

\* newPuzzle(), difficulty being this.gameState.difficulty at the call
DeductGame_newPuzzle(difficulty) ==
    /\ timer' = Timer_reset(Timer_stop(timer))
    /\ genDifficulty' = difficulty
    /\ pc' = "returned"
    /\ returned' = generateFallbackPuzzle(genVariant, difficulty)
    /\ origin' = "fallback"
    /\ UNCHANGED <<genVariant, genSize, maxAttempts, attempt, calls, solverResult>>
    /\ loadPuzzle(returned')
    /\ statusText' = updateStatus
    /\ plan' = PlayerPlans[genVariant][settingsKey(difficulty)]
    /\ offPlan' = 0
    /\ wins' = 0
    /\ UNCHANGED <<gToggles, gShowGuides, now, timeouts>>

\* startGame(difficulty)
startGame(difficulty) ==
    /\ welcomeModal' = FALSE
    /\ DeductGame_newPuzzle(difficulty)
    /\ gameInitialized' = TRUE
    /\ UNCHANGED winModal

\* setDifficulty(difficulty)
setDifficulty(difficulty) ==
    IF ~gameInitialized
    THEN startGame(difficulty)
    ELSE /\ DeductGame_newPuzzle(difficulty)
         /\ gameInitialized' = TRUE
         /\ UNCHANGED <<welcomeModal, winModal>>

\* GameState.reset() clearing gameCompleted only
reset_KeepsCells ==
    /\ gGameCompleted' = FALSE
    /\ UNCHANGED <<gDeleted, gConfirmed>>

\* GameState.reset()
reset ==
    IF gCurrentPuzzle # NoPuzzle(GameSize)
    THEN /\ gDeleted' = AllFalse(GameSize)
         /\ gConfirmed' = AllFalse(GameSize)
         /\ gGameCompleted' = FALSE
    ELSE UNCHANGED <<gDeleted, gConfirmed, gGameCompleted>>

\* resetPuzzle()
resetPuzzle ==
    /\ timer' = Timer_reset(Timer_stop(timer))
    /\ reset
    /\ statusText' = updateStatus
    /\ offPlan' = 0
    /\ wins' = 0
    /\ UNCHANGED <<genVars, gPc, gToggles, gGrid, gRowTargets, gColTargets, gCurrentPuzzle,
                   gSolutionMask, gDifficulty, gShowGuides>>
    /\ UNCHANGED <<gameInitialized, now, winModal, welcomeModal, timeouts, plan>>

\* the click was on the wanted cell of the plan
onPlan(row, col) == <<row, col>> \in planLeft

\* handleCellClick(row, col), with handleWin() when checkWin() holds
handleCellClick(row, col) ==
    LET started == IF ~isRunning(timer) /\ ~gGameCompleted
                   THEN Timer_start(timer, now) ELSE timer
        cells == toggled(gDeleted, gConfirmed, row, col)
    IN  /\ gDeleted' = cells.deleted
        /\ gConfirmed' = cells.confirmed
        /\ offPlan' = IF onPlan(row, col) THEN offPlan ELSE offPlan + 1
        /\ IF checkWinOf(gGrid, gRowTargets, gColTargets, cells.deleted)
           THEN /\ gGameCompleted' = TRUE
                /\ timer' = Timer_stop(started)
                /\ statusText' = showWinStatus(Timer_stop(started), now)
                /\ timeouts' = timeouts \cup {now + winModalDelay}
                /\ wins' = wins + 1
           ELSE /\ timer' = started
                /\ statusText' = updateStatus
                /\ UNCHANGED <<gGameCompleted, timeouts, wins>>

\* the grid's click listener returns before handleCellClick
ignoresClick_Never(initialized) == FALSE
ignoresClick(initialized) == ~initialized

\* ---------- the events
\* a difficulty button of the welcome modal
WelcomeDifficultyClick ==
    /\ welcomeModal
    /\ \E difficulty \in KnownDifficulties : startGame(difficulty)
    /\ lastEvent' = Event("welcomeDifficulty")
    /\ UNCHANGED <<uVars, kVars, sVars, vVars, dVars>>

\* a difficulty button of the page
DifficultyClick ==
    /\ \E difficulty \in KnownDifficulties : setDifficulty(difficulty)
    /\ lastEvent' = Event("difficulty")
    /\ UNCHANGED <<uVars, kVars, sVars, vVars, dVars>>

\* a click on a cell of #gameGrid
GridClick ==
    /\ \E c \in ClickCells :
          /\ lastEvent' = [name |-> "cell", row |-> c[1], col |-> c[2]]
          /\ IF ignoresClick(gameInitialized)
             THEN UNCHANGED <<gDeleted, gConfirmed, gGameCompleted, timer, statusText,
                              timeouts, wins, offPlan>>
             ELSE /\ onPlan(c[1], c[2]) \/ offPlan < MaxProbes
                  /\ handleCellClick(c[1], c[2])
    /\ UNCHANGED <<genVars, gPc, gToggles, gGrid, gRowTargets, gColTargets, gCurrentPuzzle,
                   gSolutionMask, gDifficulty, gShowGuides>>
    /\ UNCHANGED <<gameInitialized, now, winModal, welcomeModal, plan>>
    /\ UNCHANGED <<uVars, kVars, sVars, vVars, dVars>>

\* #resetBtn
ResetClick ==
    /\ IF gameInitialized
       THEN resetPuzzle
       ELSE /\ welcomeModal' = TRUE
            /\ UNCHANGED <<genVars, gPc, gToggles, stateVars>>
            /\ UNCHANGED <<gameInitialized, timer, now, statusText, winModal, timeouts,
                           wins, plan, offPlan>>
    /\ lastEvent' = Event("reset")
    /\ UNCHANGED <<uVars, kVars, sVars, vVars, dVars>>

\* keydown: h is showHint(), which returns at once while hintSystem is null;
\* r is resetPuzzle()
Keydown ==
    /\ \E key \in {"h", "r"} :
          /\ lastEvent' = Event(key)
          /\ IF gameInitialized /\ ~gGameCompleted /\ key = "r"
             THEN resetPuzzle
             ELSE /\ UNCHANGED <<genVars, gPc, gToggles, stateVars>>
                  /\ UNCHANGED <<gameInitialized, timer, now, statusText, winModal,
                                 welcomeModal, timeouts, wins, plan, offPlan>>
    /\ UNCHANGED <<uVars, kVars, sVars, vVars, dVars>>

\* #guidesToggle changed to `checked`
GuidesToggle ==
    /\ \E checked \in BOOLEAN :
          gShowGuides' = IF gameInitialized THEN checked ELSE gShowGuides
    /\ lastEvent' = Event("guides")
    /\ UNCHANGED <<genVars, gPc, gToggles, gGrid, gRowTargets, gColTargets, gDeleted,
                   gConfirmed, gGameCompleted, gCurrentPuzzle, gSolutionMask, gDifficulty>>
    /\ UNCHANGED <<gameInitialized, timer, now, statusText, winModal, welcomeModal,
                   timeouts, wins, plan, offPlan>>
    /\ UNCHANGED <<uVars, kVars, sVars, vVars, dVars>>

\* the callback of handleWin's setTimeout: showWinModal()
WinModalTimeout ==
    /\ \E due \in timeouts :
          /\ due <= now
          /\ timeouts' = timeouts \ {due}
    /\ winModal' = [active |-> TRUE, time |-> getFormattedTime(timer, now)]
    /\ lastEvent' = Event("timeout")
    /\ UNCHANGED <<genVars, gPc, gToggles, stateVars>>
    /\ UNCHANGED <<gameInitialized, timer, now, statusText, welcomeModal, wins, plan,
                   offPlan>>
    /\ UNCHANGED <<uVars, kVars, sVars, vVars, dVars>>

\* #playAgainBtn of the win modal: playAgain()
PlayAgainClick ==
    /\ winModal.active
    /\ winModal' = [winModal EXCEPT !.active = FALSE]
    /\ DeductGame_newPuzzle(gDifficulty)
    /\ lastEvent' = Event("playAgain")
    /\ UNCHANGED <<gameInitialized, welcomeModal>>
    /\ UNCHANGED <<uVars, kVars, sVars, vVars, dVars>>

\* #changeDifficultyBtn of the win modal: changeDifficulty()
ChangeDifficultyClick ==
    /\ winModal.active
    /\ winModal' = [winModal EXCEPT !.active = FALSE]
    /\ welcomeModal' = TRUE
    /\ lastEvent' = Event("changeDifficulty")
    /\ UNCHANGED <<genVars, gPc, gToggles, stateVars>>
    /\ UNCHANGED <<gameInitialized, timer, now, statusText, timeouts, wins, plan,
                   offPlan>>
    /\ UNCHANGED <<uVars, kVars, sVars, vVars, dVars>>

\* the clock moves on by winModalDelay
Tick ==
    /\ now < winModalDelay * (MaxTicks + 1)
    /\ now' = now + winModalDelay
    /\ lastEvent' = Event("tick")
    /\ UNCHANGED <<genVars, gPc, gToggles, stateVars>>
    /\ UNCHANGED <<gameInitialized, timer, statusText, winModal, welcomeModal, timeouts,
                   wins, plan, offPlan>>
    /\ UNCHANGED <<uVars, kVars, sVars, vVars, dVars>>

\* new DeductGame()
PlayInit ==
    /\ genVariant \in PlayVariants /\ genSize = ProgramSize /\ genDifficulty = "easy"
    /\ maxAttempts = 0 /\ attempt = 0 /\ calls = 0
    /\ pc = "idle" /\ returned = NoPuzzle(ProgramSize) /\ origin = "none"
    /\ solverResult = NoSolution
    /\ GameNew /\ UIdle /\ KIdle /\ SIdle /\ VIdle /\ DIdle

PlayNext ==
    \/ WelcomeDifficultyClick \/ DifficultyClick \/ GridClick \/ ResetClick \/ Keydown
    \/ GuidesToggle \/ WinModalTimeout \/ PlayAgainClick \/ ChangeDifficultyClick
    \/ Tick
PlaySpec == PlayInit /\ [][PlayNext]_vars

\* ------------------- attemptGeneration of part_001 and part_002, on its own
MaxMoves == 4

KeepVariants == {"basic", "enhanced"}
KeepSizes == {Size, ProgramSize}

\* The draws of createValidSolutionMask's row pass: every one on a Size x Size
\* grid; on the program's grid the identity shuffle and one rowKeepCount for all
\* rows, so that every row keeps its first rowKeepCount columns.
keepDraws(n, p) ==
    IF n = Size
    THEN [Idx(n) -> rowKeepSets(n, p)]
    ELSE {[i \in Idx(n) |-> 0 .. ((IF k < n THEN k ELSE n) - 1)] :
              k \in p.minKeepCells .. p.maxKeepCells}

\* The cell draws of createGrid: every draw matrix on a Size x Size grid; on
\* the program's grid those with at most one draw above 0.
keepGridDraws(n) ==
    IF n = Size
    THEN drawMatrices(n)
    ELSE {[i \in Idx(n) |-> [j \in Idx(n) |-> IF <<i, j>> = c THEN u ELSE 0]] :
              c \in Cells(n), u \in 0 .. (ValueSpan - 1)}

KeepInit ==
    /\ genVariant \in KeepVariants
    /\ genSize \in KeepSizes
    /\ genDifficulty \in Difficulties
    /\ maxAttempts = 0 /\ attempt = 0 /\ calls = 0
    /\ pc = "idle" /\ returned = NoPuzzle(Size) /\ origin = "none" /\ solverResult = NoSolution
    /\ kPc = "ready" /\ kMask = AllTrue(Size) /\ kGrid = NoPuzzle(Size).grid
    /\ kTargets = NoTargets(Size) /\ kValid = FALSE
    /\ GameNew /\ UIdle /\ SIdle /\ VIdle /\ DIdle

\* attemptGeneration(): createValidSolutionMask, createGrid, calculateTargets,
\* validatePuzzle; what each of them returned is kept
KAttempt ==
    /\ kPc = "ready"
    /\ \E keeps \in keepDraws(genSize, settingsOf(genVariant, genDifficulty)),
          d \in keepGridDraws(genSize), pick \in 0 .. (ValueSpan - 1) :
          /\ kMask' = createValidSolutionMask(genSize, settingsOf(genVariant, genDifficulty),
                                             keeps)
          /\ kGrid' = createGrid(genSize, settingsOf(genVariant, genDifficulty),
                                genVariant = "enhanced" /\ genDifficulty = "easy", d, pick)
          /\ kTargets' = calculateTargets(genSize, kGrid', kMask')
          /\ kValid' = validatePuzzle(genSize, settingsOf(genVariant, genDifficulty),
                                     kGrid', kMask', kTargets')
    /\ kPc' = "attempted"
    /\ UNCHANGED <<genVars, gameVars, uVars, sVars, vVars, dVars>>

KeepNext == KAttempt
KeepSpec == KeepInit /\ [][KeepNext]_vars

\* ----------------------------------- meetsStrategyRequirements, on its own
\* the results of LogicalSolver.solve() that reach the gate: solved, no
\* guessing, one counted strategy per step, at most MaxMoves steps
GateSolutions ==
    {[solved |-> TRUE, requiredGuessing |-> FALSE, steps |-> c[1] + c[2] + c[3],
      strategyBreakdown |-> [forced |-> c[1], intersection |-> c[2], advanced |-> c[3],
                             total |-> c[1] + c[2] + c[3]]] :
        c \in {x \in (0 .. MaxMoves) \X (0 .. MaxMoves) \X (0 .. MaxMoves) :
                  x[1] + x[2] + x[3] <= MaxMoves}}

GateInit ==
    /\ genVariant = "strategy"
    /\ genSize = ProgramSize
    /\ genDifficulty \in Difficulties
    /\ maxAttempts = constructorMaxAttempts("strategy") /\ attempt = 0 /\ calls = 0
    /\ pc = "idle" /\ returned = NoPuzzle(Size) /\ origin = "none" /\ solverResult = NoSolution
    /\ sPc = "ready" /\ sSolution \in GateSolutions /\ sMeets = FALSE
    /\ GameNew /\ UIdle /\ KIdle /\ VIdle /\ DIdle

CheckStrategy ==
    /\ sPc = "ready"
    /\ sMeets' = meetsStrategyRequirements(settingsOf(genVariant, genDifficulty), sSolution)
    /\ sPc' = "checked"
    /\ UNCHANGED sSolution
    /\ UNCHANGED <<genVars, gameVars, uVars, kVars, vVars, dVars>>

GateNext == CheckStrategy
GateSpec == GateInit /\ [][GateNext]_vars

\* ------------------------------------------------- solve(), pass by pass
Solvers == {"simple", "logical"}

\* the masks createSolutionMask and createIntelligentSolutionMask can return:
\* at least 2 cells kept in every row and in every column
SolverMasks ==
    {m \in [Idx(Size) -> [Idx(Size) -> BOOLEAN]] :
        \A i \in Idx(Size) :
            /\ CountTrue(m[i], Size) >= 2
            /\ CountTrue([r \in Idx(Size) |-> m[r][i]], Size) >= 2}

\* one pass of SimpleSolver.solve(): the cells after each of the five rules
SimpleSolverTrail(n, grid, T, s) ==
    LET r1 == applyForcedDeletions(n, grid, T, s)
        r2 == applyForcedKeeps(n, grid, T, r1)
        r3 == applyCompletions(n, grid, T, r2)
        r4 == applyIntersectionLogic(n, grid, T, r3)
        r5 == applySubsetSum(n, grid, T, r4)
    IN  [entry |-> s, rows |-> SS_forcedDeletionsRows(n, grid, T, s, n),
         rules |-> <<r1, r2, r3, r4, r5>>]

\* one pass of LogicalSolver.solve(): the cells after each rule the if / else
\* if chain called
LogicalSolverTrail(n, grid, T, s) ==
    LET byForced == LS_applyForcedMoves(n, grid, T, s)
        byIntersection == LS_applyIntersectionLogic(n, grid, T, s)
        byAdvanced == LS_applyAdvancedDeduction(n, grid, T, s)
    IN  [entry |-> s, rows |-> LS_forcedMovesRows(n, grid, T, s, n),
         rules |-> IF byForced # s THEN <<byForced>>
                   ELSE IF byIntersection # s THEN <<byForced, byIntersection>>
                   ELSE <<byForced, byIntersection, byAdvanced>>]

\* new SimpleSolver(puzzle) / new LogicalSolver(grid, targets), solve() entered
SolveInit ==
    /\ vPc = "run"
    /\ vSolver \in Solvers
    /\ vGrid \in UGrids
    /\ vMask \in SolverMasks
    /\ vTargets = calculateTargets(Size, vGrid, vMask)
    /\ vR = IF vSolver = "simple" THEN SimpleSolverStart(Size) ELSE LogicalSolverStart(Size)
    /\ vTrail = NoTrail
    /\ vResult = NoSolution
    /\ vPasses = 0 /\ vSize = Size
    /\ GenIdle /\ GameNew /\ UIdle /\ KIdle /\ SIdle /\ DIdle

VLoopCond ==
    IF vSolver = "simple"
    THEN SimpleSolverLoopCond(vSize, vGrid, vTargets, vR)
    ELSE LogicalSolverLoopCond(vSize, vGrid, vTargets, vR)

\* one iteration of solve()'s while loop
VPass ==
    /\ vPc = "run"
    /\ VLoopCond
    /\ vR' = IF vSolver = "simple"
             THEN SimpleSolverPass(vSize, vGrid, vTargets, vR)
             ELSE LogicalSolverPass(vSize, vGrid, vTargets, vR)
    /\ vTrail' = IF vSolver = "simple"
                 THEN IF vR'.broke
                      THEN [entry |-> vR.s, rows |-> vR.s, rules |-> <<>>]
                      ELSE SimpleSolverTrail(vSize, vGrid, vTargets, vR.s)
                 ELSE LogicalSolverTrail(vSize, vGrid, vTargets, vR.s)
    /\ vPasses' = vPasses + 1
    /\ UNCHANGED <<vPc, vSolver, vGrid, vMask, vTargets, vResult, vSize>>
    /\ UNCHANGED <<genVars, gameVars, uVars, kVars, sVars, dVars>>

\* the loop has ended: solve() returns
VReturn ==
    /\ vPc = "run"
    /\ ~VLoopCond
    /\ vResult' = IF vSolver = "simple"
                  THEN SimpleSolverResult(vSize, vGrid, vTargets, vR)
                  ELSE LogicalSolverFinish(vSize, vGrid, vTargets, vR)
    /\ vPc' = "done"
    /\ UNCHANGED <<vSolver, vGrid, vMask, vTargets, vR, vTrail, vPasses, vSize>>
    /\ UNCHANGED <<genVars, gameVars, uVars, kVars, sVars, dVars>>

SolveNext == VPass \/ VReturn
SolveSpec == SolveInit /\ [][SolveNext]_vars
\* solve() is one uninterrupted call: while it runs (vPc = "run") its next
\* step is another iteration of the loop or the return, and one of the two is
\* possible whenever vPc = "run"; SolveStep says so much of SolveNext.
SolveStep ==
    /\ vPc = "run"
    /\ \E p \in {"run", "done"} :
          /\ vPc' = p
          /\ vPasses' = IF p = "run" THEN vPasses + 1 ELSE vPasses
SolveFairSpec == SolveSpec /\ WF_<<vPc, vPasses>>(SolveStep)

\* --- SimpleSolver on a wider grid, where the rules meet columns the earlier
\* rules of the pass have left with two undecided cells
SubsetSize == 4
SubsetDeletions == 4
\* grids of ones with at most one cell of another value
SubsetGrids ==
    {g \in [Idx(SubsetSize) -> [Idx(SubsetSize) -> 1 .. ValueSpan]] :
        Cardinality({c \in Cells(SubsetSize) : g[c[1]][c[2]] # 1}) <= 1}
\* masks with SubsetDeletions deleted cells that keep two cells of every line
SubsetMasks ==
    {m \in [Idx(SubsetSize) -> [Idx(SubsetSize) -> BOOLEAN]] :
        /\ Cardinality({c \in Cells(SubsetSize) : ~m[c[1]][c[2]]}) = SubsetDeletions
        /\ \A i \in Idx(SubsetSize) :
              /\ CountTrue(m[i], SubsetSize) >= 2
              /\ CountTrue([r \in Idx(SubsetSize) |-> m[r][i]], SubsetSize) >= 2}

SubsetInit ==
    /\ vPc = "run"
    /\ vSolver = "simple"
    /\ vSize = SubsetSize
    /\ vGrid \in SubsetGrids
    /\ vMask \in SubsetMasks
    /\ vTargets = calculateTargets(SubsetSize, vGrid, vMask)
    /\ vR = SimpleSolverStart(SubsetSize)
    /\ vTrail = NoTrail
    /\ vResult = NoSolution
    /\ vPasses = 0
    /\ GenIdle /\ GameNew /\ UIdle /\ KIdle /\ SIdle /\ DIdle

SubsetSpec == SubsetInit /\ [][SolveNext]_vars

\* --- createGrid's two resampling loops on the program's grid, draw by draw
\* (basic and enhanced variants).  A line is a row being filled, cell dTodo[1]
\* next, or a column whose positions dTodo are still to be changed.
createGrid_maxDraws == 50
MaxRedraws == 2

DrawProfile == settingsOf(genVariant, genDifficulty)
DrawEasyBranch == genVariant = "enhanced" /\ genDifficulty = "easy"
\* the values lines start from: the lowest ValueSpan values of the profile
DrawValues == DrawProfile.minValue .. (DrawProfile.minValue + ValueSpan - 1)

\* a row with its first j cells filled
DrawRowStarts ==
    {[x \in Idx(ProgramSize) |-> IF x < j THEN f[x] ELSE 0] :
        j \in Idx(ProgramSize), f \in [Idx(ProgramSize) -> DrawValues]}

\* the positions of value in col beyond the first maxDuplicates
createGrid_ToChange(n, p, col, value) ==
    LET positions == sortedSeq({i \in Idx(n) : col[i] = value})
    IN  SubSeq(positions, p.maxDuplicates + 1, Len(positions))

DrawInit ==
    /\ genVariant \in KeepVariants
    /\ genSize = ProgramSize
    /\ genDifficulty \in Difficulties
    /\ maxAttempts = 0 /\ attempt = 0 /\ calls = 0
    /\ pc = "idle" /\ returned = NoPuzzle(Size) /\ origin = "none" /\ solverResult = NoSolution
    /\ dAttempts = 0
    /\ \/ /\ dPc = "row"
          /\ dLine \in DrawRowStarts
          /\ dTodo = <<Cardinality({x \in Idx(ProgramSize) : dLine[x] # 0})>>
       \/ /\ dPc = "col"
          /\ dLine \in [Idx(ProgramSize) -> DrawValues]
          /\ \E value \in DrawValues :
                /\ dTodo = createGrid_ToChange(ProgramSize, DrawProfile, dLine, value)
                /\ dTodo # <<>>
    /\ GameNew /\ UIdle /\ KIdle /\ SIdle /\ VIdle

\* one iteration of the do-while of a row cell: a draw, attempts++, and the
\* loop goes on while the value is at maxDuplicates in the row and attempts < 50
DrawRowCell ==
    /\ dPc = "row"
    /\ ~DrawEasyBranch
    /\ \E value \in DrawProfile.minValue .. DrawProfile.maxValue :
          LET j == dTodo[1]
              attempts == dAttempts + 1
          IN  /\ dAttempts' = attempts
              /\ IF countOf(dLine, j, value) >= DrawProfile.maxDuplicates
                    /\ attempts < createGrid_maxDraws
                 THEN UNCHANGED <<dPc, dLine, dTodo>>
                 ELSE /\ dLine' = [dLine EXCEPT ![j] = value]
                      /\ dTodo' = <<>>
                      /\ dPc' = "done"
    /\ UNCHANGED <<genVars, gameVars, uVars, kVars, sVars, vVars>>

\* enhanced, easy: the cell is drawn once, from the values still available
DrawEasyCell ==
    /\ dPc = "row"
    /\ DrawEasyBranch
    /\ \E u \in 0 .. (ValueSpan - 1) :
          dLine' = createGrid_EasyCell(ProgramSize, DrawProfile, dLine, u, dTodo[1])
    /\ dAttempts' = 1
    /\ dTodo' = <<>>
    /\ dPc' = "done"
    /\ UNCHANGED <<genVars, gameVars, uVars, kVars, sVars, vVars>>

\* the column pass's do-while draws a value that is at maxDuplicates in the
\* column: it draws again.  The count of redraws is kept up to MaxRedraws.
DrawColAgain ==
    /\ dPc = "col"
    /\ \E w \in DrawProfile.minValue .. DrawProfile.maxValue :
          w \notin createGrid_Eligible(ProgramSize, DrawProfile, dLine)
    /\ dAttempts' = IF dAttempts < MaxRedraws THEN dAttempts + 1 ELSE dAttempts
    /\ UNCHANGED <<dPc, dLine, dTodo>>
    /\ UNCHANGED <<genVars, gameVars, uVars, kVars, sVars, vVars>>

\* it draws a value below maxDuplicates: the loop ends and the position is changed
DrawColChange ==
    /\ dPc = "col"
    /\ createGrid_Eligible(ProgramSize, DrawProfile, dLine) # {}
    /\ \E pick \in 0 .. (ValueSpan - 1) :
          dLine' = createGrid_Change(ProgramSize, DrawProfile, dLine, dTodo[1], pick)
    /\ dTodo' = Tail(dTodo)
    /\ dAttempts' = 0
    /\ dPc' = IF Tail(dTodo) = <<>> THEN "done" ELSE "col"
    /\ UNCHANGED <<genVars, gameVars, uVars, kVars, sVars, vVars>>

DrawNext == DrawRowCell \/ DrawEasyCell \/ DrawColAgain \/ DrawColChange
DrawSpec == DrawInit /\ [][DrawNext]_vars
\* createGrid is one synchronous call: while a row cell is being drawn its
\* next step is another draw, which counts.  DrawRowStep says so much of
\* DrawRowCell and DrawEasyCell.
DrawRowStep ==
    /\ dPc = "row"
    /\ dAttempts' = dAttempts + 1
    /\ \E p \in {"row", "done"} : dPc' = p
\* The draws are random: a value that is possible at every draw is drawn in
\* the end.  In the column pass's loop that is a value below maxDuplicates;
\* DrawColStep says so much of DrawColChange.
DrawColStep ==
    /\ dPc = "col"
    /\ createGrid_Eligible(ProgramSize, DrawProfile, dLine) # {}
    /\ dTodo' = Tail(dTodo)
    /\ \E p \in {"col", "done"} : dPc' = p
DrawFairSpec ==
    DrawSpec /\ WF_<<dPc, dAttempts>>(DrawRowStep) /\ SF_<<dPc, dTodo>>(DrawColStep)

\* ====================================================== properties
\* the sum of the values of `line` (a set of cells) that `mask` keeps
keptSum(grid, mask, line) ==
    LET cellsOf == {c \in line : mask[c[1]][c[2]]}
        f[S \in SUBSET cellsOf] ==
            IF S = {} THEN 0
            ELSE LET c == CHOOSE x \in S : TRUE
                 IN  grid[c[1]][c[2]] + f[S \ {c}]
    IN  f[cellsOf]

\* the targets of puzzle p are the sums its solutionMask keeps
targetsFollowMask(n, p) ==
    \A i \in Idx(n) :
        /\ p.rowTargets[i] = keptSum(p.grid, p.solutionMask, {i} \X Idx(n))
        /\ p.colTargets[i] = keptSum(p.grid, p.solutionMask, Idx(n) \X {i})

\* C1: every puzzle that generate() returns from an accepted attempt has each
\* row target equal to the sum of the row's values kept by solutionMask, and
\* each column target equal to the sum of the column's kept values.
C1_TargetsFollowMask ==
    origin = "generated" => targetsFollowMask(genSize, returned)

C1_Witness ==
    /\ origin = "generated"
    /\ \E c \in Cells(genSize) : ~returned.solutionMask[c[1]][c[2]]
    /\ \E c \in Cells(genSize) : returned.grid[c[1]][c[2]] > 1

\* C2: generate() always returns; it never makes more than maxAttempts
\* attempts, an accepted attempt is returned at once (every attempt before it
\* failed), and the fallback is returned only after exactly maxAttempts
\* failed attempts.
C2_GenerateReturns ==
    /\ [](calls <= maxAttempts)
    /\ [](origin = "generated" => pc = "returned" /\ calls = attempt + 1)
    /\ [](origin = "fallback" =>
            pc = "returned" /\ attempt = maxAttempts /\ calls = maxAttempts)
    /\ [](pc = "returned" => origin \in {"generated", "fallback"})
    /\ <>(pc = "returned")

C2_Witness ==
    /\ origin = "fallback" /\ pc = "returned"
    /\ maxAttempts = MaxAttempts /\ calls = MaxAttempts

\* C3: an exhausted generate() (maxAttempts = 0 or every attempt failed)
\* returns exactly the static fallback literal of the generator's difficulty,
\* whatever was drawn: the result depends on the variant and difficulty only.
C3_FallbackIsStatic ==
    origin = "fallback" =>
        LET key == IF genDifficulty \in {"easy", "medium", "hard"}
                   THEN genDifficulty ELSE "medium"
        IN  returned = CASE genVariant \in {"strategy", "validated"} ->
                                strategyFallbackPuzzles[key]
                         [] genVariant = "enhanced" -> enhancedFallbackPuzzles[key]
                         [] genVariant = "basic" -> basicFallbackPuzzle(genDifficulty)

C3_Witness ==
    /\ origin = "fallback" /\ calls = MaxAttempts /\ maxAttempts = MaxAttempts
    /\ genDifficulty = "hard" /\ genVariant = "strategy"

\* C4: every static fallback puzzle satisfies the targets invariant with its
\* own solutionMask (rows and columns).
C4_FallbackTargetsFollowMask ==
    origin = "fallback" => targetsFollowMask(ProgramSize, returned)

\* C5: every fallback puzzle is playable: from the state right after
\* initializeWithPuzzle(fallback) some sequence of toggleCell calls makes
\* checkWin() true, i.e. some deletion set meets every row and column target.
C5_FallbackPlayable ==
    (gPc = "loaded" /\ origin = "fallback") => winnable(gGrid, gRowTargets, gColTargets)

\* the generators whose profiles ask for a unique, logically solved puzzle
StrictVariants == {"strategy", "validated"}

\* C6: every puzzle accepted under a profile that requires a unique solution
\* has exactly one solution as counted by the uniqueness checker.
C6_AcceptedIsUnique ==
    (origin = "generated" /\ genVariant \in StrictVariants) =>
        hasUniqueSolution(genSize, returned.grid,
                          [row |-> returned.rowTargets, col |-> returned.colTargets])

\* C7: every puzzle accepted under a strict profile was solved by the
\* generator's solver: solved = true and requiredGuessing = false.
C7_AcceptedIsSolved ==
    (origin = "generated" /\ genVariant \in StrictVariants) =>
        solverResult.solved /\ ~solverResult.requiredGuessing

C7_Witness ==
    /\ origin = "generated" /\ genVariant = "validated"
    /\ solverResult.solved /\ solverResult.steps > 0

\* C8: in every puzzle returned from an accepted attempt no row's full sum
\* equals its row target and no column's full sum equals its column target.
C8_NoTrivialLine ==
    origin = "generated" =>
        \A i \in Idx(genSize) :
            /\ keptSum(returned.grid, AllTrue(genSize), {i} \X Idx(genSize))
                    # returned.rowTargets[i]
            /\ keptSum(returned.grid, AllTrue(genSize), Idx(genSize) \X {i})
                    # returned.colTargets[i]

\* C9: the solutionMask of every returned puzzle keeps at least 2 cells in
\* every row and in every column.
C9_MaskKeepsTwo ==
    pc = "returned" =>
        LET n == IF origin = "fallback" THEN ProgramSize ELSE genSize
        IN  \A i \in Idx(n) :
                /\ Cardinality({j \in Idx(n) : returned.solutionMask[i][j]}) >= 2
                /\ Cardinality({j \in Idx(n) : returned.solutionMask[j][i]}) >= 2

\* the masks over the Size x Size cells, and those of them that keep at least
\* 2 cells in every row and column
AllMasks == [Idx(Size) -> [Idx(Size) -> BOOLEAN]]
FloorMasks ==
    {m \in AllMasks :
        \A i \in Idx(Size) :
            /\ Cardinality({j \in Idx(Size) : m[i][j]}) >= 2
            /\ Cardinality({j \in Idx(Size) : m[j][i]}) >= 2}

\* mask m meets every row and column target of the search's input
meetsTargets(m) ==
    \A i \in Idx(Size) :
        /\ keptSum(uGrid, m, {i} \X Idx(Size)) = uTargets.row[i]
        /\ keptSum(uGrid, m, Idx(Size) \X {i}) = uTargets.col[i]

\* C10 as stated: hasUniqueSolution returns true iff exactly one boolean mask
\* over the cells meets every row and column target.
C10_UniqueIffOneMask ==
    uPc = "done" =>
        ((Len(uOut.solutions) = 1) <=>
            (Cardinality({m \in AllMasks : meetsTargets(m)}) = 1))

\* C10 (amended): hasUniqueSolution returns true iff exactly one mask that
\* keeps at least 2 cells in every row and column meets every target.
C10_UniqueIffOneFloorMask ==
    uPc = "done" =>
        ((Len(uOut.solutions) = 1) <=>
            (Cardinality({m \in FloorMasks : meetsTargets(m)}) = 1))

\* a search that answered true although two masks meet the targets
C10_Witness ==
    /\ uPc = "done" /\ Len(uOut.solutions) = 1
    /\ Cardinality({m \in AllMasks : meetsTargets(m)}) > 1

\* the number of masks that keep at least 2 cells in every row and column and
\* meet every target of the search's input
floorSolutions == {m \in FloorMasks : meetsTargets(m)}

\* C11: findAllSolutions with maxSolutions = 2 ends with min(2, K) recorded
\* solutions, K being the number of masks that meet all targets and keep at
\* least 2 cells per row and column; every recorded mask meets all targets;
\* never more than 2 are recorded.
C11_SearchCountsToTwo ==
    uPc = "done" =>
        LET K == floorSolutions
        IN  /\ Len(uOut.solutions) = (IF Cardinality(K) < 2 THEN Cardinality(K) ELSE 2)
            /\ \A k \in 1 .. Len(uOut.solutions) : uOut.solutions[k] \in K
            /\ Len(uOut.solutions) <= 2

\* a search cut short: three or more masks qualify, two are recorded
C11_Witness ==
    /\ uPc = "done" /\ Len(uOut.solutions) = 2
    /\ Cardinality(floorSolutions) > 2

\* C12: checkWin() is true exactly when every row's and every column's sum of
\* non-deleted cells equals its target, whatever the confirmed flags are; with
\* targets = calculateTargets(grid, mask), deleting exactly the mask's false
\* cells is a win.
C12_CheckWinSumsKept ==
    gPc = "loaded" =>
        LET kept == [i \in Idx(GameSize) |-> [j \in Idx(GameSize) |-> ~gDeleted[i][j]]]
            T == calculateTargets(GameSize, gGrid, kept)
        IN  /\ checkWin <=>
                  \A i \in Idx(GameSize) :
                      /\ keptSum(gGrid, kept, {i} \X Idx(GameSize)) = gRowTargets[i]
                      /\ keptSum(gGrid, kept, Idx(GameSize) \X {i}) = gColTargets[i]
            /\ checkWinOf(gGrid, T.row, T.col, gDeleted)

C12_Witness ==
    /\ gPc = "loaded" /\ gToggles = MaxToggles
    /\ Cardinality({c \in Cells(GameSize) : gDeleted[c[1]][c[2]]}) = MaxToggles

\* the medium profile and the medium fallback literal of each variant
mediumProfile ==
    [strategy |-> strategySettings.medium, validated |-> validatedSettings.medium,
     basic |-> basicSettings.medium, enhanced |-> enhancedSettings.medium]
mediumFallback ==
    [strategy |-> strategyFallbackPuzzles.medium, validated |-> strategyFallbackPuzzles.medium,
     basic |-> basicFallbackPuzzle("medium"), enhanced |-> enhancedFallbackPuzzles.medium]

uniformGrid == \A c \in Cells(Size) : uGrid[c[1]][c[2]] = uGrid[0][0]

\* C15 as stated: on a grid of identical values v, with row and column targets
\* that are multiples of v, the search reports at least 2 solutions.
C15_UniformIsNotUnique ==
    (/\ uPc = "done"
     /\ uniformGrid
     /\ \A i \in Idx(Size) : /\ uTargets.row[i] % uGrid[0][0] = 0
                              /\ uTargets.col[i] % uGrid[0][0] = 0)
        => Len(uOut.solutions) >= 2

\* mask m deletes two cells that share neither a row nor a column
deletesDiagonalPair(m) ==
    \E a \in Cells(Size), b \in Cells(Size) :
        /\ a[1] # b[1] /\ a[2] # b[2]
        /\ ~m[a[1]][a[2]] /\ ~m[b[1]][b[2]]
        /\ m[a[1]][b[2]] /\ m[b[1]][a[2]]

\* C15 (amended): on a grid of identical values, with the targets of a mask
\* that keeps at least 2 cells per row and column and deletes two cells in
\* different rows and columns whose two opposite corners it keeps, the search
\* reports 2 solutions and hasUniqueSolution is false.
C15_UniformSwapIsNotUnique ==
    (/\ uPc = "done"
     /\ uniformGrid
     /\ \E m \in FloorMasks : deletesDiagonalPair(m) /\ meetsTargets(m))
        => Len(uOut.solutions) = 2

C15_Witness ==
    /\ uPc = "done" /\ uniformGrid /\ uGrid[0][0] = ValueSpan
    /\ \E m \in FloorMasks : deletesDiagonalPair(m) /\ meetsTargets(m)
    /\ Len(uOut.solutions) = 2

C14_FallbackIsItsOwnSolution ==
    (origin = "fallback" /\ genVariant = "strategy") =>
        /\ isValidSolution(ProgramSize, returned.grid, returned.solutionMask,
                           [row |-> returned.rowTargets, col |-> returned.colTargets])
        /\ \A i \in Idx(ProgramSize) :
              /\ CountTrue(returned.solutionMask[i], ProgramSize) >= 2
              /\ CountTrue([r \in Idx(ProgramSize) |-> returned.solutionMask[r][i]],
                           ProgramSize) >= 2

\* the percentage bounds each profile of the strategy-checking generator
\* configures (a bound the profile leaves out is 0 below, 100 above)
configuredPercent ==
    [easy |-> [minForced |-> 70, maxForced |-> 100, minIntersection |-> 0,
               maxIntersection |-> 30, minAdvanced |-> 0, maxAdvanced |-> 0],
     medium |-> [minForced |-> 30, maxForced |-> 50, minIntersection |-> 30,
                 maxIntersection |-> 50, minAdvanced |-> 0, maxAdvanced |-> 20],
     hard |-> [minForced |-> 0, maxForced |-> 30, minIntersection |-> 30,
               maxIntersection |-> 40, minAdvanced |-> 30, maxAdvanced |-> 100]]

occurrences(grid, line, v) == Cardinality({c \in line : grid[c[1]][c[2]] = v})

\* C18: in the grid createGrid returns no value occurs more than maxDuplicates
\* times in any row or in any column.
C18_GridWithinMaxDuplicates ==
    kPc = "attempted" =>
        \A i \in Idx(genSize) : \A c \in Cells(genSize) :
            /\ occurrences(kGrid, {i} \X Idx(genSize), kGrid[c[1]][c[2]])
                    <= settingsOf(genVariant, genDifficulty).maxDuplicates
            /\ occurrences(kGrid, Idx(genSize) \X {i}, kGrid[c[1]][c[2]])
                    <= settingsOf(genVariant, genDifficulty).maxDuplicates

\* C19: the mask createValidSolutionMask returns on the program's grid (it
\* never returns null) has between minKeepCells and maxKeepCells true cells in
\* every row and in every column.
C19_MaskWithinKeepRange ==
    (kPc = "attempted" /\ genSize = ProgramSize) =>
        \A i \in Idx(genSize) :
            LET inRow == Cardinality({j \in Idx(genSize) : kMask[i][j]})
                inCol == Cardinality({j \in Idx(genSize) : kMask[j][i]})
                p == settingsOf(genVariant, genDifficulty)
            IN  /\ inRow >= p.minKeepCells /\ inRow <= p.maxKeepCells
                /\ inCol >= p.minKeepCells /\ inCol <= p.maxKeepCells

\* C20: validatePuzzle returns false exactly when some row's or column's full
\* sum equals its target or some row's or column's number of mask = false
\* cells lies outside [size - maxKeepCells, size - minKeepCells].
C20_ValidatePuzzleExact ==
    kPc = "attempted" =>
        LET p == settingsOf(genVariant, genDifficulty)
            row(i) == {i} \X Idx(genSize)
            col(i) == Idx(genSize) \X {i}
            deletedIn(line) == Cardinality({c \in line : ~kMask[c[1]][c[2]]})
            outside(line) == \/ deletedIn(line) < genSize - p.maxKeepCells
                             \/ deletedIn(line) > genSize - p.minKeepCells
        IN  (~kValid) <=>
                \E i \in Idx(genSize) :
                    \/ keptSum(kGrid, AllTrue(genSize), row(i)) = kTargets.row[i]
                    \/ keptSum(kGrid, AllTrue(genSize), col(i)) = kTargets.col[i]
                    \/ outside(row(i))
                    \/ outside(col(i))

C20_Witness ==
    /\ kPc = "attempted" /\ ~kValid /\ genSize = ProgramSize
    /\ \E c \in Cells(genSize) : ~kMask[c[1]][c[2]]

\* number of false cells of a mask
deletionsOf(n, mask) == Cardinality({c \in Cells(n) : ~mask[c[1]][c[2]]})

\* C21: the puzzle an accepted attempt of a deletion-count generator returns
\* has a solutionMask whose number of false cells is a deletion count the
\* attempt can draw, within [minDeletions, maxDeletions]: the mask sampler
\* answers null for any other number, and a null mask ends the attempt.
C21_DeletionsWithinRange ==
    (origin = "generated" /\ genVariant \in {"strategy", "validated"}) =>
        /\ deletionsOf(genSize, returned.solutionMask)
              >= ScaleCells(genSize, settingsOf(genVariant, genDifficulty).minDeletions)
        /\ deletionsOf(genSize, returned.solutionMask)
              <= ScaleCells(genSize, settingsOf(genVariant, genDifficulty).maxDeletions)

C21_Witness ==
    /\ origin = "generated" /\ genVariant = "validated"
    /\ deletionsOf(genSize, returned.solutionMask) > 0

\* the cells a pass went through, in order: at its entry, after the row loops
\* of its first rule, after each rule it applied
trailStates == <<vTrail.entry, vTrail.rows>> \o vTrail.rules

\* from a to b only cells undecided in a were given a flag, and one flag each
actedOnUndecided(a, b) ==
    /\ a.deleted \subseteq b.deleted
    /\ a.confirmed \subseteq b.confirmed
    /\ \A c \in (b.deleted \ a.deleted) \cup (b.confirmed \ a.confirmed) :
          c \notin a.deleted /\ c \notin a.confirmed

\* C22: during a solver run no cell is deleted and confirmed at the same
\* time, and each rule gives a flag only to cells that were undecided when it
\* acted (for the LogicalSolver: applyForcedMoves, the first rule of a pass).
C22_CellsHaveOneState ==
    vPc \in {"run", "done"} =>
        /\ vR.s.deleted \cap vR.s.confirmed = {}
        /\ \A k \in 1 .. Len(trailStates) :
              trailStates[k].deleted \cap trailStates[k].confirmed = {}
        /\ actedOnUndecided(vTrail.entry, vTrail.rows)
        /\ vTrail.rules # <<>> => actedOnUndecided(vTrail.rows, vTrail.rules[1])
        /\ vSolver = "simple" =>
              \A k \in 2 .. Len(vTrail.rules) :
                  actedOnUndecided(vTrail.rules[k - 1], vTrail.rules[k])

C22_Witness ==
    /\ vPc = "run" /\ vSolver = "simple" /\ vR.steps >= 1
    /\ vR.s.deleted # {} /\ vR.s.confirmed # {}
    /\ vTrail.rules[5] # vTrail.entry

\* the forced-deletion rule took the cells of `line`, whose kept-sum was
\* target + excess, from a to b: undecided cells equal to excess deleted,
\* larger ones confirmed, smaller ones left undecided
forcedOnLine(a, b, line, excess) ==
    \A c \in line :
        (c \notin a.deleted /\ c \notin a.confirmed) =>
            /\ vGrid[c[1]][c[2]] = excess => (c \in b.deleted /\ c \notin b.confirmed)
            /\ vGrid[c[1]][c[2]] > excess => (c \in b.confirmed /\ c \notin b.deleted)
            /\ vGrid[c[1]][c[2]] < excess => (c \notin b.deleted /\ c \notin b.confirmed)

\* C23: one application of the forced-deletion rule (applyForcedDeletions of
\* the SimpleSolver, applyForcedMoves of the LogicalSolver) to a row or column
\* whose kept-sum exceeds its target by excess > 0 deletes every undecided
\* cell of the line equal to excess, confirms every undecided cell above
\* excess and leaves the smaller ones undecided.  The rows are handled from
\* the cells at the pass's entry, the columns from the cells the row loops left.
C23_ForcedDeletionRule ==
    (vPc \in {"run", "done"} /\ vTrail.rules # <<>>) =>
        \A i \in Idx(Size) :
            /\ getRowSum(Size, vGrid, vTrail.entry, i) > vTargets.row[i] =>
                  forcedOnLine(vTrail.entry, vTrail.rows, rowCells(Size, i),
                               getRowSum(Size, vGrid, vTrail.entry, i) - vTargets.row[i])
            /\ getColSum(Size, vGrid, vTrail.rows, i) > vTargets.col[i] =>
                  forcedOnLine(vTrail.rows, vTrail.rules[1], colCells(Size, i),
                               getColSum(Size, vGrid, vTrail.rows, i) - vTargets.col[i])

\* a row of kept-sum target + 2 holding an undecided 2 and an undecided 1
C23_Witness ==
    /\ vPc = "run" /\ vTrail.rules # <<>>
    /\ \E i \in Idx(Size) :
          /\ getRowSum(Size, vGrid, vTrail.entry, i) = vTargets.row[i] + 2
          /\ \E c \in rowCells(Size, i) : vGrid[c[1]][c[2]] = 2 /\ c \in vTrail.rows.deleted
          /\ \E c \in rowCells(Size, i) :
                /\ vGrid[c[1]][c[2]] = 1
                /\ c \notin vTrail.rows.deleted /\ c \notin vTrail.rows.confirmed

\* the solver's flags agree with the mask its targets were calculated from
agreesWithMask(s) ==
    /\ \A c \in s.deleted : ~vMask[c[1]][c[2]]
    /\ \A c \in s.confirmed : vMask[c[1]][c[2]]

\* vMask is the only mask, of all masks over the cells, that meets vTargets
onlySolution ==
    \A m \in AllMasks : calculateTargets(Size, vGrid, m) = vTargets => m = vMask

\* C24: on a puzzle with exactly one solution, every cell a solver has set to
\* deleted is false in the solution and every cell it has set to confirmed is
\* true in it, after any number of passes.
C24_DeductionsAreSound ==
    (vPc \in {"run", "done"} /\ ~agreesWithMask(vR.s)) => ~onlySolution

decidedCells(s) == s.deleted \cup s.confirmed

\* one step of a SimpleSolver run: no decided cell is lost, a pass that
\* reports a change has decided at least one more cell, the pass count stays
\* within Size * Size + 1 and the stuck-counter exit is not taken
C25_SimplePass ==
    vSolver = "simple" =>
        /\ vR'.steps = vPasses'
        /\ vR.s.deleted \subseteq vR'.s.deleted
        /\ vR.s.confirmed \subseteq vR'.s.confirmed
        /\ (vR' # vR /\ vR'.changed) =>
               Cardinality(decidedCells(vR'.s)) > Cardinality(decidedCells(vR.s))
        /\ vR'.steps <= Size * Size + 1
        /\ vR'.steps < SS_maxSteps
        /\ ~vR'.broke

\* C25: SimpleSolver.solve() always terminates: decided cells never return to
\* undecided, every pass that reports a change decides at least one more
\* cell, so the loop runs at most N*N + 1 passes, inside the 200-step budget,
\* and the stuck-counter exit is never the reason it stops.
C25_SimpleSolverTerminates ==
    /\ [][C25_SimplePass]_vars
    /\ (vSolver = "simple" /\ vPc = "run") ~> (vPc = "done")

C25_Witness ==
    /\ vPc = "done"
    /\ vSolver = "simple"
    /\ vR.steps >= 2
    /\ vR.s.deleted # {}
    /\ ~vR.changed
    /\ ~vResult.solved

\* every row and column sum of the cells the solver has not deleted equals its target
keptSumsMeetTargets ==
    /\ \A i \in Idx(Size) :
          Accumulate([j \in Idx(Size) |->
              IF <<i, j>> \in vR.s.deleted THEN 0 ELSE vGrid[i][j]], Size) = vTargets.row[i]
    /\ \A j \in Idx(Size) :
          Accumulate([i \in Idx(Size) |->
              IF <<i, j>> \in vR.s.deleted THEN 0 ELSE vGrid[i][j]], Size) = vTargets.col[j]

\* C26: LogicalSolver.solve() ends in exactly one of two outcomes: solved with
\* requiredGuessing false (all row and column kept-sums equal their targets),
\* or not solved with requiredGuessing true (the last pass fired no rule); it
\* never returns solved together with requiredGuessing.
C26_TerminalOutcomes ==
    (vPc = "done" /\ vSolver = "logical") =>
        \/ vResult.solved /\ ~vResult.requiredGuessing /\ keptSumsMeetTargets
        \/ /\ ~vResult.solved /\ vResult.requiredGuessing
           /\ ~keptSumsMeetTargets /\ ~vR.changed /\ vPasses >= 1

C26_Witness ==
    /\ vPc = "done"
    /\ vSolver = "logical"
    /\ vResult.requiredGuessing
    /\ vResult.steps >= 1

strategyNames == <<"forced", "intersection", "advanced">>
strategyCounts(r) == <<r.forced, r.intersection, r.advanced>>

\* steps, total, the sum of the three counters and the length of the history agree
C27_CountersAgree ==
    vSolver = "logical" =>
        /\ vR.steps = vR.total
        /\ vR.total = vR.forced + vR.intersection + vR.advanced
        /\ vR.total = Len(vR.moveHistory)
        /\ vPc = "done" =>
              /\ vResult.steps = vResult.strategyBreakdown.total
              /\ vResult.steps = Len(vResult.moveHistory)

\* one pass: the rules before the one that changed the state changed nothing,
\* the state is what that rule left, its counter alone grew by one and its
\* name was recorded; a pass in which no rule changed the state counts nothing
C27_OneRulePerPass ==
    (vSolver = "logical" /\ vPasses' = vPasses + 1) =>
        LET tried == vTrail'.rules
            k == Len(tried)
        IN  /\ k \in 1 .. 3
            /\ \A i \in 1 .. (k - 1) : tried[i] = vR.s
            /\ IF tried[k] # vR.s
               THEN /\ vR'.changed
                    /\ vR'.s = tried[k]
                    /\ \A i \in 1 .. 3 :
                          strategyCounts(vR')[i] =
                              strategyCounts(vR)[i] + (IF i = k THEN 1 ELSE 0)
                    /\ vR'.moveHistory = Append(vR.moveHistory, strategyNames[k])
               ELSE /\ k = 3
                    /\ ~vR'.changed
                    /\ vR'.s = vR.s
                    /\ strategyCounts(vR') = strategyCounts(vR)
                    /\ vR'.moveHistory = vR.moveHistory

\* C27: each pass of LogicalSolver.solve() tries forced, intersection, advanced
\* in that order and applies no later rule once one has changed the state, so
\* a changing pass increments exactly one strategy counter; after every pass
\* steps = strategyBreakdown.total = forced + intersection + advanced =
\* moveHistory.length.
C27_OneCounterPerPass ==
    /\ []C27_CountersAgree
    /\ [][C27_OneRulePerPass]_vars

C27_Witness ==
    /\ vSolver = "logical"
    /\ vR.forced >= 1
    /\ vR.intersection >= 1
    /\ vR.steps >= 2
    /\ Len(vTrail.rules) = 2

\* the bounded subset-sum rule has work on a line of the state s: exactly two
\* undecided cells, a positive excess, and one value or the sum of both equal
\* to the excess
subsetSumApplies(s, line, excess) ==
    LET und == undecidedIn(s, line)
    IN  /\ Cardinality(und) = 2
        /\ excess > 0
        /\ \/ \E c \in und : vGrid[c[1]][c[2]] = excess
           \/ \E c \in und, d \in und :
                  c # d /\ vGrid[c[1]][c[2]] + vGrid[d[1]][d[2]] = excess

\* C28: the bounded subset-sum rule applies to rows and to columns alike:
\* whenever a row or a column has exactly two undecided cells and a positive
\* excess, and one cell's value (or the sum of both) equals the excess, the
\* rule decides those cells.  A row is judged on the state applySubsetSum was
\* entered with, a column on the state its row loop left; the state after the
\* rule is the one applySubsetSum returned with.
C28_SubsetSumRowsAndColumns ==
    (vSolver = "simple" /\ Len(vTrail.rules) = 5) =>
        LET atEntry == vTrail.rules[4]
            atReturn == vTrail.rules[5]
        IN  /\ \A i \in Idx(vSize) :
                  subsetSumApplies(atEntry, rowCells(vSize, i),
                                   getRowSum(vSize, vGrid, atEntry, i) - vTargets.row[i])
                      => undecidedIn(atReturn, rowCells(vSize, i)) = {}
            /\ \A j \in Idx(vSize) :
                  subsetSumApplies(atReturn, colCells(vSize, j),
                                   getColSum(vSize, vGrid, atReturn, j) - vTargets.col[j])
                      => undecidedIn(atReturn, colCells(vSize, j)) = {}

\* C29: the in-place backtracking of findAllSolutions restores its working
\* mask: every call returns with the cells at or after its own cell true
\* again, so hasUniqueSolution's mask is all-true when the search ends,
\* canDeleteCell always sees the not-yet-decided cells as kept, and each
\* recorded solution is a copy the later backtracking has not changed: it
\* still meets the targets it was recorded for.
C29_MaskRestored ==
    uPc = "done" =>
        /\ uOut.restored
        /\ uOut.mask = AllTrue(Size)
        /\ uOut.keptAhead
        /\ \A k \in 1 .. Len(uOut.solutions) :
              isValidSolution(Size, uGrid, uOut.solutions[k], uTargets)

C29_Witness ==
    /\ uPc = "done"
    /\ Len(uOut.solutions) = 2
    /\ uOut.solutions[1] # AllTrue(Size)
    /\ uOut.solutions[2] # AllTrue(Size)
    /\ uOut.mask = AllTrue(Size)

\* C30: createGrid always terminates for size 7 under each difficulty profile:
\* the resampling of a row cell stops after at most 50 draws, and whenever the
\* column pass is in its resampling loop at least one value of
\* [minValue, maxValue] has a column count below maxDuplicates, so under fair
\* random draws the loop exits.
C30_CreateGridTerminates ==
    /\ [](dPc \in {"row", "done"} => dAttempts <= createGrid_maxDraws)
    /\ [](dPc = "col" => createGrid_Eligible(ProgramSize, DrawProfile, dLine) # {})
    /\ (dPc \in {"row", "col"}) ~> (dPc = "done")

C30_Witness ==
    /\ dPc = "done"
    /\ dAttempts = createGrid_maxDraws

\* --- C31
\* getCellState(row, col) of a game with these arrays
getCellState(deleted, confirmed, row, col) ==
    IF deleted[row][col] THEN "deleted"
    ELSE IF confirmed[row][col] THEN "confirmed"
    ELSE "normal"

\* the arrays after three toggleCell(row, col) calls in a row
toggledThrice(deleted, confirmed, row, col) ==
    LET once == toggled(deleted, confirmed, row, col)
        twice == toggled(once.deleted, once.confirmed, row, col)
    IN  toggled(twice.deleted, twice.confirmed, row, col)

\* C31: whatever clicks and resets came before, no cell is both deleted and
\* confirmed, one toggleCell moves a cell along normal -> deleted ->
\* confirmed -> normal, and three toggleCell calls on one cell give back the
\* arrays they started from.
C31_ToggleCycle ==
    gPc = "loaded" =>
        \A c \in Cells(GameSize) :
            LET before == getCellState(gDeleted, gConfirmed, c[1], c[2])
                once == toggled(gDeleted, gConfirmed, c[1], c[2])
                after == getCellState(once.deleted, once.confirmed, c[1], c[2])
            IN  /\ ~(gDeleted[c[1]][c[2]] /\ gConfirmed[c[1]][c[2]])
                /\ after = CASE before = "normal" -> "deleted"
                             [] before = "deleted" -> "confirmed"
                             [] before = "confirmed" -> "normal"
                /\ toggledThrice(gDeleted, gConfirmed, c[1], c[2])
                       = [deleted |-> gDeleted, confirmed |-> gConfirmed]

\* three clicks on one cell since the puzzle was loaded, and every cell
\* normal again
C31_Witness ==
    /\ gameInitialized /\ lastEvent.name = "cell" /\ offPlan >= 3
    /\ isRunning(timer)
    /\ gDeleted = AllFalse(GameSize) /\ gConfirmed = AllFalse(GameSize)

\* --- C32
\* the cells a click on (row, col) is not about
cellsOtherThan(row, col) == Cells(GameSize) \ {<<row, col>>}

\* C32: a click changes the deleted and confirmed flags of the clicked cell
\* only, and neither a click nor a reset changes the grid, the targets or the
\* solution mask of the GameState, or the puzzle generate() returned and
\* initializeWithPuzzle was given.
C32_PlayKeepsPuzzle ==
    [][/\ lastEvent'.name = "cell" =>
              \A c \in cellsOtherThan(lastEvent'.row, lastEvent'.col) :
                  /\ gDeleted'[c[1]][c[2]] = gDeleted[c[1]][c[2]]
                  /\ gConfirmed'[c[1]][c[2]] = gConfirmed[c[1]][c[2]]
       /\ lastEvent'.name \in {"cell", "reset", "r"} =>
              UNCHANGED <<gGrid, gRowTargets, gColTargets, gSolutionMask, gCurrentPuzzle,
                          returned>>]_vars

\* a reset of a game that was won a moment ago: clicks, then reset()
C32_Witness ==
    /\ gameInitialized /\ lastEvent.name = "reset" /\ timeouts # {}
    /\ gDeleted = AllFalse(GameSize)
    /\ gGrid = returned.grid /\ gCurrentPuzzle = returned /\ origin = "fallback"

\* --- C33
\* the handler that ran last called initializeWithPuzzle() or reset()
loadedOrReset ==
    \/ lastEvent.name \in {"welcomeDifficulty", "difficulty", "playAgain"}
    \/ lastEvent.name = "reset" /\ gameInitialized

modalOpenedAfterWin == lastEvent'.name = "timeout" /\ statusText.shown

holdsReturnedPuzzle ==
    /\ gPc = "loaded" /\ pc = "returned" /\ origin # "none"
    /\ gCurrentPuzzle = returned
    /\ gGrid = returned.grid
    /\ gRowTargets = returned.rowTargets
    /\ gColTargets = returned.colTargets
    /\ gSolutionMask = returned.solutionMask

\* C36: while gameInitialized is false a cell click, a guides toggle and the
\* h and r keys change neither the GameState nor the Timer; gameInitialized
\* never goes back to false; and while it is true the GameState holds the
\* puzzle generate() returned.
C36_InitializedGate ==
    [][/\ (~gameInitialized /\ lastEvent'.name \in {"cell", "guides", "h", "r"}) =>
              UNCHANGED <<gPc, stateVars, timer>>
       /\ gameInitialized => gameInitialized'
       /\ gameInitialized' => holdsReturnedPuzzle']_vars

\* a cell click before startGame: nothing loaded, the timer not started
C36_Witness ==
    /\ ~gameInitialized /\ lastEvent.name = "cell"
    /\ gPc = "new" /\ timer = NewTimer

\* --- C37
\* no row or column of s has lost so much that its kept cells sum to less
\* than its target
targetsInReach(s) ==
    \A i \in Idx(vSize) :
        /\ getRowSum(vSize, vGrid, s, i) >= vTargets.row[i]
        /\ getColSum(vSize, vGrid, s, i) >= vTargets.col[i]

\* C37: at every point of SimpleSolver.solve() on a puzzle whose targets are
\* those of a solution mask, the cells not deleted of every row and of every
\* column sum to at least the line's target.
C37_TargetsStayInReach ==
    (vSolver = "simple" /\ vPc \in {"run", "done"}) =>
        /\ targetsInReach(vR.s)
        /\ \A k \in DOMAIN trailStates : targetsInReach(trailStates[k])

=============================================================================
